---- MODULE Spec2Model ----
(***************************************************************************)
(* Intent calibration layer of the mood dashboard (js/intent.js) together  *)
(* with the cloud merge of js/sync.js.                                     *)
(*                                                                         *)
(* Number representation.  JavaScript numbers are modelled as fixed-point  *)
(* integers: similarity scores in hundredths (100 = 1.0), hours of sleep   *)
(* in tenths (65 = 6.5 h).  An SQL NULL / JS null number is the empty      *)
(* sequence, a present number v is <<v>>.  Time is counted in whole hours  *)
(* since an epoch that falls on a local midnight.                          *)
(*                                                                         *)
(* Text representation.  A text is a sequence of pieces; a piece is either *)
(* a word or the whitespace piece " ".  The falsy empty string is <<>>.    *)
(***************************************************************************)
EXTENDS Integers, Sequences, FiniteSets, TLC

(* ---------------------------------------------------------------------- *)
(* Bounds of the model                                                     *)
(* ---------------------------------------------------------------------- *)
MaxRows == 2          \* rows of intent_checkins the local store may reach
MaxCalls == 2         \* handleCheckin executions that may be in flight
MaxTicks == 4         \* hours the clock may advance past the boot hour
TsRes == 10           \* distinguishable instants per hour in a timestamp
MaxFaults == 1        \* calls of the embedding provider that may throw

(* ---------------------------------------------------------------------- *)
(* Configuration (CFG)                                                     *)
(* ---------------------------------------------------------------------- *)
intervalHours == 3
windowStart == 8
windowEnd == 20
alignThreshold == 35          \* 0.35 in hundredths
driftWindowBlocks == 5

(* ---------------------------------------------------------------------- *)
(* Optional numbers                                                        *)
(* ---------------------------------------------------------------------- *)
Null == <<>>
Num(v) == <<v>>
IsNull(x) == x = <<>>
Val(x) == x[1]

(* ---------------------------------------------------------------------- *)
(* Texts                                                                   *)
(* ---------------------------------------------------------------------- *)
WS == " "

\* String.prototype.trim: strip leading and trailing whitespace pieces.
RECURSIVE TrimLeft(_)
TrimLeft(s) ==
    IF s = <<>> THEN <<>>
    ELSE IF Head(s) = WS THEN TrimLeft(Tail(s)) ELSE s

RECURSIVE TrimRight(_)
TrimRight(s) ==
    IF s = <<>> THEN <<>>
    ELSE IF s[Len(s)] = WS THEN TrimRight(SubSeq(s, 1, Len(s) - 1)) ELSE s

\* Variant: the field value is taken as typed.
trimNothing(s) == s

\* String.prototype.trim
trim(s) == TrimRight(TrimLeft(s))

\* JS truthiness of a string: only '' is falsy.
Truthy(s) == s # <<>>

\* String.prototype.toLowerCase on one piece.
toLowerCase(w) ==
    CASE w = "Ship" -> "ship"
      [] w = "Rest" -> "rest"
      [] w = "The"  -> "the"
      [] OTHER      -> w

STOPS ==
    {"the", "a", "an", "is", "it", "to", "in", "on", "for", "of", "and",
     "or", "i", "my", "me", "was", "did", "do", "be", "this", "that",
     "with", "have", "has", "had", "not", "but", "at", "by", "from", "so"}

\* Words of the model's vocabulary that are one character long.
OneChar == {"a", "i", "x"}

\* s.toLowerCase().split(/\W+/).filter(w => w.length > 1 && !STOPS.has(w)).
\* Whitespace pieces are the separators; the empty strings that split()
\* leaves at the ends have length 0 and are filtered with them.
RECURSIVE tokenize(_)
tokenize(s) ==
    IF s = <<>> THEN <<>>
    ELSE LET w == toLowerCase(Head(s))
             rest == tokenize(Tail(s))
         IN IF w # WS /\ w \notin OneChar /\ w \notin STOPS
            THEN <<w>> \o rest
            ELSE rest

(* ---------------------------------------------------------------------- *)
(* Vectors                                                                 *)
(* ---------------------------------------------------------------------- *)
\* A JS value that is either null or an array of numbers.
NoVec == [ok |-> FALSE, v |-> <<>>]
Vec(v) == [ok |-> TRUE, v |-> v]

RECURSIVE Dot(_, _)
Dot(a, b) ==
    IF a = <<>> THEN 0 ELSE Head(a) * Head(b) + Dot(Tail(a), Tail(b))

\* floor(100 * dot / sqrt(nn)) for nn > 0 and dot * dot <= nn.
Quot100(dot, nn) ==
    IF dot >= 0
    THEN CHOOSE k \in 0..100 :
            /\ k * k * nn <= 10000 * dot * dot
            /\ (k + 1) * (k + 1) * nn > 10000 * dot * dot
    ELSE 0 - (CHOOSE m \in 1..100 :
                /\ m * m * nn >= 10000 * dot * dot
                /\ (m - 1) * (m - 1) * nn < 10000 * dot * dot)

\* Variant: a zero norm gives null.
cosineSimNullOnZeroNorm(a, b) ==
    IF ~a.ok \/ ~b.ok \/ Len(a.v) # Len(b.v) THEN Null
    ELSE LET dot == Dot(a.v, b.v)
             nA == Dot(a.v, a.v)
             nB == Dot(b.v, b.v)
         IN IF nA * nB = 0 THEN Null ELSE Num(Quot100(dot, nA * nB))

\* if (!a || !b || a.length !== b.length) return null; ...
\* return denom === 0 ? 0 : dot / denom, in hundredths.
cosineSim(a, b) ==
    IF ~a.ok \/ ~b.ok \/ Len(a.v) # Len(b.v) THEN Null
    ELSE LET dot == Dot(a.v, b.v)
             nA == Dot(a.v, a.v)
             nB == Dot(b.v, b.v)
         IN IF nA * nB = 0 THEN Num(0) ELSE Num(Quot100(dot, nA * nB))

(* ---------------------------------------------------------------------- *)
(* Bag-of-words fallback                                                   *)
(* ---------------------------------------------------------------------- *)
\* Array.from(new Set(toks)): distinct tokens in order of first occurrence.
RECURSIVE Distinct(_, _)
Distinct(toks, seen) ==
    IF toks = <<>> THEN <<>>
    ELSE IF Head(toks) \in seen THEN Distinct(Tail(toks), seen)
         ELSE <<Head(toks)>> \o Distinct(Tail(toks), seen \cup {Head(toks)})

\* Variant: every word of the vocabulary counts at least once.
CountOrOne(toks, w) ==
    IF Cardinality({i \in 1..Len(toks) : toks[i] = w}) = 0 THEN 1
    ELSE Cardinality({i \in 1..Len(toks) : toks[i] = w})

Count(toks, w) == Cardinality({i \in 1..Len(toks) : toks[i] = w})

textOverlapSim(a, b) ==
    IF ~Truthy(a) \/ ~Truthy(b) \/ ~Truthy(trim(a)) \/ ~Truthy(trim(b))
    THEN Null
    ELSE LET tokA == tokenize(a)
             tokB == tokenize(b)
         IN IF tokA = <<>> \/ tokB = <<>> THEN Null
            ELSE LET vocabArr == Distinct(tokA \o tokB, {})
                     vecA == [i \in 1..Len(vocabArr) |-> Count(tokA, vocabArr[i])]
                     vecB == [i \in 1..Len(vocabArr) |-> Count(tokB, vocabArr[i])]
                 IN cosineSim(Vec(vecA), Vec(vecB))

(* ---------------------------------------------------------------------- *)
(* Time                                                                    *)
(* ---------------------------------------------------------------------- *)
\* The clock `now` counts hours; a timestamp counts instants, TsRes to the
\* hour, so that rows written within one hour still differ in ts.
HoursPerDay == 24
StartHour == 10 * 24 + 20      \* day 10, 20:00: an evening boot
MorningHour == 11 * 24 + 6     \* day 11, 06:00: a morning boot
BootHours == {StartHour, MorningHour}

HourOfTs(ts) == ts \div TsRes
DayOf(h) == h \div HoursPerDay

\* new Date().getHours()
getHours(h) == h % HoursPerDay

\* Variant: the window is cut to the hour.
InLast7DaysToTheHour(ts, h) == HourOfTs(ts) >= h - 7 * HoursPerDay

\* ts >= datetime('now','-7 days'), as SQLite evaluates it: a comparison of
\* the ISO text 'YYYY-MM-DDTHH:MM:SS.sssZ' with 'YYYY-MM-DD HH:MM:SS'.  The
\* date prefixes decide unless they are equal, and then 'T' > ' ' decides.
InLast7Days(ts, h) == DayOf(HourOfTs(ts)) >= DayOf(h - 7 * HoursPerDay)

(* ---------------------------------------------------------------------- *)
(* Stored embeddings (TEXT columns holding JSON)                           *)
(* ---------------------------------------------------------------------- *)
SqlNullText == [kind |-> "null", vec |-> <<>>]
GarbageText == [kind |-> "garbage", vec |-> <<>>]

\* result.xEmbed ? JSON.stringify(result.xEmbed) : null
JSONstringify(e) == IF e.ok THEN [kind |-> "json", vec |-> e.v] ELSE SqlNullText

\* JSON.parse: the array for JSON text, an exception for anything else.
JSONparse(t) ==
    IF t.kind = "json" THEN [threw |-> FALSE, val |-> Vec(t.vec)]
    ELSE [threw |-> TRUE, val |-> NoVec]

(* ---------------------------------------------------------------------- *)
(* The embedding provider                                                  *)
(* ---------------------------------------------------------------------- *)
TA == <<"Ship", WS, "the", WS, "module">>
TB == <<"rest">>
TC == <<"ship", WS, "rest">>
TS == <<"The">>

\* The feature-extraction pipeline is a fixed function of the text.  The
\* table is chosen so that cos(TA,TB) is exactly 0.35, cos(TB,TC) lies
\* below it, cos(TA,TC) above it and cos(TA,TS) is negative.
pipeline(text) ==
    CASE text = TA -> <<3, 4, 0, 0, 0>>
      [] text = TB -> <<1, 1, 3, 2, 1>>
      [] text = TC -> <<0, 5, 0, -1, 0>>
      [] text = TS -> <<-3, -4, 0, 0, 0>>
      [] OTHER     -> <<1, 0, 0, 0, 0>>

\* Variant: no test for an empty or blank text.
getEmbeddingOfAnyText(text, ready, model, throws) ==
    IF ~ready \/ ~model THEN NoVec
    ELSE IF throws THEN NoVec
    ELSE Vec(pipeline(text))

\* getEmbedding(text): null for an empty text or without a model, null when
\* the pipeline call throws, the vector otherwise.
getEmbedding(text, ready, model, throws) ==
    IF ~Truthy(text) \/ ~Truthy(trim(text)) \/ ~ready \/ ~model THEN NoVec
    ELSE IF throws THEN NoVec
    ELSE Vec(pipeline(text))

\* True when getEmbedding(text) calls the pipeline, that is, when its await
\* waits for the provider rather than for a microtask.
CallsModel(text, ready, model) ==
    Truthy(text) /\ Truthy(trim(text)) /\ ready /\ model

(* ---------------------------------------------------------------------- *)
(* DB helpers                                                              *)
(* ---------------------------------------------------------------------- *)
NoRow == <<>>

\* Variant: ORDER BY ts DESC LIMIT 1 (the latest by wall-clock time).
getLastCheckinByTs(rows) ==
    IF rows = <<>> THEN NoRow
    ELSE <<CHOOSE r \in {rows[i] : i \in 1..Len(rows)} :
              \A j \in 1..Len(rows) : rows[j].ts <= r.ts>>

\* SELECT * FROM intent_checkins ORDER BY id DESC LIMIT 1
getLastCheckin(rows) ==
    IF rows = <<>> THEN NoRow
    ELSE <<CHOOSE r \in {rows[i] : i \in 1..Len(rows)} :
              \A j \in 1..Len(rows) : rows[j].id <= r.id>>

\* Variant: INSERT OR REPLACE that keeps the id column of a merged row.
InsertOrReplace(d, row) ==
    IF row.id # 0 /\ \E i \in 1..Len(d.intent_checkins) : d.intent_checkins[i].id = row.id
    THEN [d EXCEPT !.intent_checkins =
            [i \in 1..Len(@) |-> IF @[i].id = row.id THEN row ELSE @[i]]]
    ELSE [d EXCEPT !.intent_checkins = @ \o <<[row EXCEPT !.id = d.seq + 1]>>,
                   !.seq = @ + 1]

\* INSERT without an id into a table declared INTEGER PRIMARY KEY
\* AUTOINCREMENT: the row gets sqlite_sequence + 1.
InsertCheckin(d, row) ==
    [d EXCEPT !.intent_checkins = @ \o <<[row EXCEPT !.id = d.seq + 1]>>,
              !.seq = @ + 1]

(* ---------------------------------------------------------------------- *)
(* Alignment scoring                                                       *)
(* ---------------------------------------------------------------------- *)
\* Variant: JSON.parse outside the try/catch.
AlignRetroEmbeddingNoCatch(prev, retroEmbed) ==
    IF prev # NoRow /\ prev[1].prospect_embedding.kind # "null"
    THEN LET p == JSONparse(prev[1].prospect_embedding)
         IN IF p.threw THEN [rejected |-> TRUE, val |-> Null]
            ELSE [rejected |-> FALSE, val |-> cosineSim(p.val, retroEmbed)]
    ELSE [rejected |-> FALSE, val |-> Null]

\* The embedding branch of computeAlignment once the three embeddings are
\* in.  `rejected` tells whether an exception leaves computeAlignment: the
\* only statement that can throw, JSON.parse, sits in a try/catch.
AlignRetroEmbedding(prev, retroEmbed) ==
    IF prev # NoRow /\ prev[1].prospect_embedding.kind # "null"
    THEN LET p == JSONparse(prev[1].prospect_embedding)
         IN IF p.threw THEN [rejected |-> FALSE, val |-> Null]
            ELSE [rejected |-> FALSE, val |-> cosineSim(p.val, retroEmbed)]
    ELSE [rejected |-> FALSE, val |-> Null]

AlignProspectEmbedding(targetEmbed, prospectEmbed) ==
    IF targetEmbed.ok /\ prospectEmbed.ok
    THEN cosineSim(targetEmbed, prospectEmbed) ELSE Null

\* The text-overlap branch of computeAlignment.
AlignRetroFallback(prev, retro) ==
    IF prev # NoRow /\ Truthy(prev[1].prospective) /\ Truthy(retro)
    THEN textOverlapSim(prev[1].prospective, retro) ELSE Null

AlignProspectFallback(target, prospect) ==
    IF Truthy(target) /\ Truthy(prospect)
    THEN textOverlapSim(target, prospect) ELSE Null

\* Variant: <= in place of <.
driftFlagAtOrBelow(alignRetro) ==
    IF ~IsNull(alignRetro) /\ Val(alignRetro) <= alignThreshold THEN 1 ELSE 0

\* var driftFlag = (alignRetro !== null && alignRetro < CFG.alignThreshold) ? 1 : 0
driftFlagOf(alignRetro) ==
    IF ~IsNull(alignRetro) /\ Val(alignRetro) < alignThreshold THEN 1 ELSE 0

(* ---------------------------------------------------------------------- *)
(* Notifications                                                           *)
(* ---------------------------------------------------------------------- *)
\* Variant: the window closed at its upper bound.
isInWindowClosed(h) == getHours(h) >= windowStart /\ getHours(h) <= windowEnd

\* h >= CFG.windowStart && h < CFG.windowEnd
isInWindow(h) == getHours(h) >= windowStart /\ getHours(h) < windowEnd

\* elapsed = (Date.now() - new Date(last.ts).getTime()) / 3600000
shouldCheckIn(rows, h) ==
    IF ~isInWindow(h) THEN FALSE
    ELSE LET last == getLastCheckin(rows)
         IN IF last = NoRow THEN TRUE
            ELSE h * TsRes - last[1].ts >= intervalHours * TsRes

\* renderLastIntent: the text shown as "Last stated intent" (<<>>: hidden).
renderLastIntent(rows) ==
    LET last == getLastCheckin(rows)
    IN IF last = NoRow \/ ~Truthy(last[1].prospective) THEN <<>>
       ELSE last[1].prospective

(* ---------------------------------------------------------------------- *)
(* Collapse early-warning heuristic                                        *)
(* ---------------------------------------------------------------------- *)
minSleepSamples == 3
minStrainSamples == 4
minAlignSamples == 3

RECURSIVE Sum(_)
Sum(s) == IF s = <<>> THEN 0 ELSE Head(s) + Sum(Tail(s))

Reverse(s) == [i \in 1..Len(s) |-> s[Len(s) + 1 - i]]

\* ORDER BY key ASC over <<key, value>> pairs (insertion sort, stable).
RECURSIVE InsertByKey(_, _)
InsertByKey(p, sorted) ==
    IF sorted = <<>> THEN <<p>>
    ELSE IF p[1] < Head(sorted)[1] THEN <<p>> \o sorted
         ELSE <<Head(sorted)>> \o InsertByKey(p, Tail(sorted))

RECURSIVE OrderByKey(_)
OrderByKey(pairs) ==
    IF pairs = <<>> THEN <<>>
    ELSE InsertByKey(pairs[Len(pairs)], OrderByKey(SubSeq(pairs, 1, Len(pairs) - 1)))

Values(pairs) == [i \in 1..Len(pairs) |-> pairs[i][2]]

\* SELECT hours_slept FROM intent_checkins WHERE hours_slept IS NOT NULL
\*   AND ts >= datetime('now','-7 days') ORDER BY ts DESC
SleepQuery(d, h) ==
    LET hit(r) == ~IsNull(r.hours_slept) /\ InLast7Days(r.ts, h)
        sel == SelectSeq(d.intent_checkins, hit)
    IN Reverse(Values(OrderByKey([i \in 1..Len(sel) |-> <<sel[i].ts, Val(sel[i].hours_slept)>>])))

\* SELECT negative_score FROM entries WHERE ts >= datetime('now','-7 days')
\*   ORDER BY ts ASC
StrainQuery(d, h) ==
    LET hit(r) == InLast7Days(r.ts, h)
        sel == SelectSeq(d.entries, hit)
    IN Values(OrderByKey([i \in 1..Len(sel) |-> <<sel[i].ts, sel[i].negative_score>>]))

\* Variant: the limit counts the rows without a score too.
AlignQueryCountingNulls(d) ==
    LET all == d.intent_checkins
        last == SubSeq(all, IF Len(all) < driftWindowBlocks THEN 1
                            ELSE Len(all) - driftWindowBlocks + 1, Len(all))
        hit(r) == ~IsNull(r.alignment_retro)
        sel == SelectSeq(last, hit)
    IN Reverse([i \in 1..Len(sel) |-> Val(sel[i].alignment_retro)])

\* SELECT alignment_retro FROM intent_checkins WHERE alignment_retro IS NOT
\*   NULL ORDER BY id DESC LIMIT driftWindowBlocks
AlignQuery(d) ==
    LET hit(r) == ~IsNull(r.alignment_retro)
        sel == SelectSeq(d.intent_checkins, hit)
        desc == Reverse(Values(OrderByKey([i \in 1..Len(sel) |-> <<sel[i].id, Val(sel[i].alignment_retro)>>])))
    IN SubSeq(desc, 1, IF Len(desc) < driftWindowBlocks THEN Len(desc) ELSE driftWindowBlocks)

\* Variant: the sleep signal fires from two samples on.
SleepFlagsFromTwo(vals) ==
    IF Len(vals) >= 2 /\ Sum(vals) < 65 * Len(vals)
    THEN <<[type |-> "sleep",
            severity |-> IF Sum(vals) < 55 * Len(vals) THEN "high" ELSE "medium"]>>
    ELSE <<>>

\* avg < 6.5 and avg < 5.5 on tenths of hours, without dividing.
SleepFlags(vals) ==
    IF Len(vals) >= minSleepSamples /\ Sum(vals) < 65 * Len(vals)
    THEN <<[type |-> "sleep",
            severity |-> IF Sum(vals) < 55 * Len(vals) THEN "high" ELSE "medium"]>>
    ELSE <<>>

\* avgR > avgE * 1.2, cross-multiplied.
StrainFlags(nv) ==
    IF Len(nv) >= minStrainSamples
    THEN LET mid == Len(nv) \div 2
             earlier == SubSeq(nv, 1, mid)
             recent == SubSeq(nv, mid + 1, Len(nv))
         IN IF 5 * Sum(recent) * Len(earlier) > 6 * Sum(earlier) * Len(recent)
            THEN <<[type |-> "strain", severity |-> "medium"]>>
            ELSE <<>>
    ELSE <<>>

\* avgS < avgF * 0.8, cross-multiplied.
AlignFlags(ar) ==
    IF Len(ar) >= minAlignSamples
    THEN LET av == Reverse(ar)
             mid2 == Len(av) \div 2
             first == SubSeq(av, 1, mid2)
             second == SubSeq(av, mid2 + 1, Len(av))
         IN IF 5 * Sum(second) * Len(first) < 4 * Sum(first) * Len(second)
            THEN <<[type |-> "alignment", severity |-> "medium"]>>
            ELSE <<>>
    ELSE <<>>

\* Variant: one flag is enough for the downshift suggestion.
computeCollapseWarningAnyFlag(d, h) ==
    LET flags == SleepFlags(SleepQuery(d, h)) \o StrainFlags(StrainQuery(d, h))
                    \o AlignFlags(AlignQuery(d))
    IN [downshift |-> Len(flags) >= 1, flags |-> flags]

\* return { downshift: flags.length >= 2, flags: flags }
computeCollapseWarning(d, h) ==
    LET flags == SleepFlags(SleepQuery(d, h)) \o StrainFlags(StrainQuery(d, h))
                    \o AlignFlags(AlignQuery(d))
    IN [downshift |-> Len(flags) >= 2, flags |-> flags]

\* The state of #collapse-warning that renderCollapseWarning leaves.
renderCollapseWarning(d, h) ==
    LET collapse == computeCollapseWarning(d, h)
    IN IF collapse.downshift THEN "downshift"
       ELSE IF Len(collapse.flags) = 1 THEN "note"
       ELSE "hidden"

(* ---------------------------------------------------------------------- *)
(* Cloud blob                                                              *)
(* ---------------------------------------------------------------------- *)
EmptyDb == [entries |-> <<>>, intent_checkins |-> <<>>, sleep_log |-> <<>>, seq |-> 0]

\* db.export(): the bytes of the SQLite file holding the tables.
export(d) == [format |-> "sqlite", tables |-> d]
JunkBytes == [format |-> "junk", tables |-> EmptyDb]

\* new SQL.Database(bytes): throws unless the bytes are an SQLite file.
OpenDatabase(bytes) ==
    IF bytes.format = "sqlite" THEN [threw |-> FALSE, d |-> bytes.tables]
    ELSE [threw |-> TRUE, d |-> EmptyDb]

\* u8ToB64 / b64ToU8: the blob column holds the base64 text of the bytes.
u8ToB64(bytes) == [kind |-> "b64", bytes |-> bytes]
b64ToU8(blob) == blob.bytes

\* No row of user_data for this user.
NoBlob == [kind |-> "none", bytes |-> JunkBytes]

\* Timestamps already present in a table.
TsOf(rows) == {rows[i].ts : i \in 1..Len(rows)}

\* One pass of rows.forEach in mergeTable: st = [d, existing, imported].
\* `bad` holds the ts of the rows whose INSERT throws (the statement is in a
\* try/catch of its own): such a row is skipped and not counted, its ts is
\* in `existing` all the same.
RECURSIVE MergeRows(_, _, _, _)
MergeRows(rows, table, st, bad) ==
    IF rows = <<>> THEN st
    ELSE LET row == Head(rows)
         IN IF row.ts \in st.existing
            THEN MergeRows(Tail(rows), table, st, bad)
            ELSE IF row.ts \in bad
            THEN MergeRows(Tail(rows), table,
                    [st EXCEPT !.existing = @ \cup {row.ts}], bad)
            ELSE MergeRows(Tail(rows), table,
                    [d |-> IF table = "intent_checkins"
                           THEN InsertCheckin(st.d, row)
                           ELSE [st.d EXCEPT ![table] = @ \o <<row>>],
                     existing |-> st.existing \cup {row.ts},
                     imported |-> st.imported + 1], bad)

\* Variant: the timestamps of the local table are not read first.
mergeTableIgnoringLocal(src, dst, table, bad) ==
    LET st == MergeRows(src[table], table,
                        [d |-> dst, existing |-> {}, imported |-> 0], bad)
    IN [d |-> st.d, imported |-> st.imported]

\* mergeTable(srcDB, dstDB, table): the destination after the merge and the
\* number of rows imported.
mergeTable(src, dst, table, bad) ==
    LET st == MergeRows(src[table], table,
                        [d |-> dst, existing |-> TsOf(dst[table]), imported |-> 0], bad)
    IN [d |-> st.d, imported |-> st.imported]

\* Variant: sleep_log is not merged.
MergeAllWithoutSleepLog(src, dst, bad) ==
    LET m1 == mergeTable(src, dst, "entries", bad)
        m2 == mergeTable(src, m1.d, "intent_checkins", bad)
    IN [d |-> m2.d, imported |-> m1.imported + m2.imported]

\* The three mergeTable calls of mergeFromCloud.
MergeAll(src, dst, bad) ==
    LET m1 == mergeTable(src, dst, "entries", bad)
        m2 == mergeTable(src, m1.d, "intent_checkins", bad)
        m3 == mergeTable(src, m2.d, "sleep_log", bad)
    IN [d |-> m3.d, imported |-> m1.imported + m2.imported + m3.imported]

\* mergeFromCloud over the row `blob` of user_data and the local store dst.
\* `failed`: the request of pullRaw ended in an error (res.error, or a
\* rejection that the catch turns into false).
NothingMerged(dst) ==
    [d |-> dst, imported |-> 0, persisted |-> FALSE, refreshed |-> FALSE,
     returned |-> FALSE]

\* Variant: the refresh hook is called after every merge that read the blob.
mergeFromCloudAlwaysRefreshing(blob, dst, failed, bad) ==
    IF failed \/ blob.kind = "none" THEN NothingMerged(dst)
    ELSE LET opened == OpenDatabase(b64ToU8(blob))
         IN IF opened.threw THEN NothingMerged(dst)
            ELSE LET m == MergeAll(opened.d, dst, bad)
                 IN [d |-> m.d, imported |-> m.imported,
                     persisted |-> m.imported > 0, refreshed |-> TRUE,
                     returned |-> m.imported > 0]

mergeFromCloud(blob, dst, failed, bad) ==
    IF failed \/ blob.kind = "none" THEN NothingMerged(dst)
    ELSE LET opened == OpenDatabase(b64ToU8(blob))
         IN IF opened.threw THEN NothingMerged(dst)
            ELSE LET m == MergeAll(opened.d, dst, bad)
                 IN [d |-> m.d, imported |-> m.imported,
                     persisted |-> m.imported > 0, refreshed |-> m.imported > 0,
                     returned |-> m.imported > 0]

(* ---------------------------------------------------------------------- *)
(* State                                                                   *)
(* ---------------------------------------------------------------------- *)
VARIABLES
    db,                 \* window.panasDB: the three tables and sqlite_sequence
    saved,              \* the copy of db that persist() wrote to localStorage
    cloud,              \* user_data.encrypted_blob of this user
    embedModel,         \* TRUE when the pipeline is loaded (embedModel !== null)
    embeddingsReady,
    embeddingsLoading,
    hc,                 \* the executions of handleCheckin, by slot
    sync,               \* the execution of mergeFromCloud / pushToCloud
    currentUser,        \* TRUE when a session user is set
    now,                \* the wall clock, in hours
    lastNotify,         \* localStorage[CFG.lsLastNotify]
    ui,                 \* what the page shows
    faults,             \* provider calls that have thrown so far
    polled,             \* when shouldCheckIn() was last called, and its result
    calc                \* a call of a similarity function: arguments and result

vars == <<db, saved, cloud, embedModel, embeddingsReady, embeddingsLoading,
          hc, sync, currentUser, now, lastNotify, ui, faults,
          polled, calc>>

Calls == 1..MaxCalls

IdleCall ==
    [pc |-> "idle", semantic |-> FALSE, retro |-> <<>>, prospect |-> <<>>,
     sleep |-> Null, prev |-> NoRow, retroEmbed |-> NoVec, prospectEmbed |-> NoVec,
     targetEmbed |-> NoVec, alignRetro |-> Null, alignProspect |-> Null]

IdleSync == [pc |-> "idle", thenPush |-> FALSE, blob |-> NoBlob, atClick |-> NoBlob]

(* ---------------------------------------------------------------------- *)
(* Inputs                                                                  *)
(* ---------------------------------------------------------------------- *)
\* What a click on Check In reads: the two textareas and panasGetSleep()
\* (null or hours in tenths).
FormInput(retro, prospect, sleep) ==
    [retro |-> retro, prospect |-> prospect, sleep |-> sleep]

BlankInputs == { FormInput(<<WS>>, <<>>, Num(50)) }

FilledInputs ==
    { FormInput(TA \o <<WS>>, TB, Num(50)),
      FormInput(<<>>, TA, Null) }

FormInputs == BlankInputs \cup FilledInputs

\* Rows another device wrote, as they sit in the cloud copy of the tables.
RemoteCheckin(ts, retro, prospect, alignRetro, prospectEmbedding) ==
    [id |-> 1, ts |-> ts, retrospective |-> retro, prospective |-> prospect,
     target_words |-> <<>>, hours_slept |-> Num(50),
     alignment_retro |-> alignRetro, alignment_prospect |-> Num(100),
     drift_flag |-> driftFlagOf(alignRetro),
     retro_embedding |-> SqlNullText,
     prospect_embedding |-> prospectEmbedding,
     target_embedding |-> prospectEmbedding]

\* A check-in made two hours before boot on a device whose model has
\* another dimension.
RemoteShort ==
    RemoteCheckin((StartHour - 2) * TsRes + 5, TB, TA, Null,
                  [kind |-> "json", vec |-> <<1, 0>>])

\* A later check-in whose stored embedding was damaged.
RemoteBad ==
    RemoteCheckin((StartHour - 1) * TsRes + 7, TA, TC, Num(80), GarbageText)

RemoteEntries ==
    [i \in 1..4 |-> [ts |-> (StartHour - 5 + i) * TsRes,
                     negative_score |-> IF i <= 2 THEN 10 ELSE 30]]

RemoteSleepLog == <<[ts |-> (StartHour - 3) * TsRes, hours_slept |-> Num(50)]>>

RemoteDbs ==
    { [entries |-> RemoteEntries, intent_checkins |-> <<RemoteShort>>,
       sleep_log |-> RemoteSleepLog, seq |-> 1],
      [entries |-> <<>>, intent_checkins |-> <<RemoteBad>>,
       sleep_log |-> <<>>, seq |-> 1] }

RemoteBlobs == {u8ToB64(export(d)) : d \in RemoteDbs}

\* The tables that mergeFromCloud merges.
Tables == {"entries", "intent_checkins", "sleep_log"}

\* The rows whose INSERT may throw during one merge: none, or the rows of
\* one ts.
BadInserts ==
    {{}} \cup {{ts} : ts \in UNION {TsOf(d[t]) : d \in RemoteDbs, t \in Tables}}
JunkBlob == u8ToB64(JunkBytes)

(* ---------------------------------------------------------------------- *)
(* Init: the page after boot() of both modules over the store d at hour h  *)
(* ---------------------------------------------------------------------- *)
\* No similarity call under observation.
NoCalc == [kind |-> "none", fn |-> "", a |-> <<>>, b |-> <<>>, out |-> Null, rounding |-> 0]

\* The page itself after boot.
PageAt(d, h) ==
    /\ db = d
    /\ saved = d
    /\ cloud = NoBlob
    /\ embedModel = FALSE
    /\ embeddingsReady = FALSE
    /\ embeddingsLoading = TRUE
    /\ hc = [p \in Calls |-> IdleCall]
    /\ sync = IdleSync
    /\ currentUser = TRUE
    /\ now = h
    /\ lastNotify = Null
    /\ ui = [status |-> "",
             notification |-> shouldCheckIn(d.intent_checkins, h),
             drift |-> Null, collapse |-> renderCollapseWarning(d, h),
             lastIntent |-> renderLastIntent(d.intent_checkins),
             embedStatus |-> "", refreshed |-> FALSE]
    /\ faults = 0
    /\ polled = [at |-> h, due |-> shouldCheckIn(d.intent_checkins, h)]

BootAt(d, h) == PageAt(d, h) /\ calc = NoCalc

\* A first visit, in the evening: the store is empty.
Init == BootAt(EmptyDb, StartHour)

(* ---------------------------------------------------------------------- *)
(* Event loop                                                              *)
(* ---------------------------------------------------------------------- *)
\* An execution whose pending await resolves in a microtask: nothing else
\* runs before its continuation does.
Microtask(c) ==
    \/ c.pc = "await_align"
    \/ c.pc = "await_retro" /\ ~CallsModel(c.retro, TRUE, TRUE)
    \/ c.pc = "await_prospect" /\ ~CallsModel(c.prospect, TRUE, TRUE)
    \/ c.pc = "await_target" /\ ~CallsModel(c.prospect, TRUE, TRUE)

MicrotaskPending == \E p \in Calls : Microtask(hc[p])

\* A continuation of p may run: its own microtask is due, or it waits for
\* the provider and the microtask queue is empty.
MayResume(p) == Microtask(hc[p]) \/ ~MicrotaskPending

InFlight == Cardinality({p \in Calls : hc[p].pc # "idle"})

\* new Date().toISOString(): an instant of the current hour that no stored
\* row carries yet (the millisecond clock has moved on since the last write).
NowInstant(rows, h) ==
    CHOOSE t \in (h * TsRes)..(h * TsRes + TsRes - 1) :
        /\ t \notin TsOf(rows)
        /\ \A u \in (h * TsRes)..(t - 1) : u \in TsOf(rows)

(* ---------------------------------------------------------------------- *)
(* handleCheckin                                                           *)
(* ---------------------------------------------------------------------- *)
\* The click: read and trim the form, validate, then enter computeAlignment
\* up to its first await.  In the text-overlap branch computeAlignment has no
\* await of its own, so its result is ready when handleCheckin suspends.
StartCheckin(p, input) ==
    /\ hc[p].pc = "idle"
    /\ \A q \in 1..(p - 1) : hc[q].pc # "idle"
    /\ ~MicrotaskPending
    /\ LET retro == trim(input.retro)
           prospect == trim(input.prospect)
           sleep == input.sleep
           prev == getLastCheckin(db.intent_checkins)
       IN IF ~Truthy(retro) /\ ~Truthy(prospect)
          THEN /\ ui' = [ui EXCEPT !.status = "Please fill in at least one field."]
               /\ hc' = hc
          ELSE /\ Len(db.intent_checkins) + InFlight < MaxRows
               /\ ui' = [ui EXCEPT !.status = "Computing alignment"]
               /\ hc' = [hc EXCEPT ![p] =
                    IF embeddingsReady
                    THEN [IdleCall EXCEPT !.pc = "await_retro", !.semantic = TRUE,
                             !.retro = retro,
                             !.prospect = prospect, !.sleep = sleep, !.prev = prev]
                    ELSE [IdleCall EXCEPT !.pc = "await_align", !.retro = retro,
                             !.prospect = prospect, !.sleep = sleep, !.prev = prev,
                             !.alignRetro = AlignRetroFallback(prev, retro),
                             !.alignProspect = AlignProspectFallback(prospect, prospect)]]
    /\ UNCHANGED <<calc, polled, faults, db, saved, cloud, embedModel, embeddingsReady,
                   embeddingsLoading, sync, currentUser, now, lastNotify>>

\* retroEmbed = await getEmbedding(retro)
EmbedRetro(p, throws) ==
    /\ hc[p].pc = "await_retro"
    /\ MayResume(p)
    /\ throws => (CallsModel(hc[p].retro, embeddingsReady, embedModel)
                    /\ faults < MaxFaults)
    /\ faults' = IF throws THEN faults + 1 ELSE faults
    /\ hc' = [hc EXCEPT ![p].pc = "await_prospect",
                        ![p].retroEmbed =
                            getEmbedding(hc[p].retro, embeddingsReady, embedModel, throws)]
    /\ UNCHANGED <<calc, polled, db, saved, cloud, embedModel, embeddingsReady,
                   embeddingsLoading, sync, currentUser, now, lastNotify, ui>>

\* prospectEmbed = await getEmbedding(prospect)
EmbedProspect(p, throws) ==
    /\ hc[p].pc = "await_prospect"
    /\ MayResume(p)
    /\ throws => (CallsModel(hc[p].prospect, embeddingsReady, embedModel)
                    /\ faults < MaxFaults)
    /\ faults' = IF throws THEN faults + 1 ELSE faults
    /\ hc' = [hc EXCEPT ![p].pc = "await_target",
                        ![p].prospectEmbed =
                            getEmbedding(hc[p].prospect, embeddingsReady, embedModel, throws)]
    /\ UNCHANGED <<calc, polled, db, saved, cloud, embedModel, embeddingsReady,
                   embeddingsLoading, sync, currentUser, now, lastNotify, ui>>

\* targetEmbed = await getEmbedding(target), then the rest of the embedding
\* branch of computeAlignment, which returns without another await.  Were
\* computeAlignment to reject, handleCheckin would end there, without a row.
EmbedTarget(p, throws) ==
    /\ hc[p].pc = "await_target"
    /\ MayResume(p)
    /\ throws => (CallsModel(hc[p].prospect, embeddingsReady, embedModel)
                    /\ faults < MaxFaults)
    /\ faults' = IF throws THEN faults + 1 ELSE faults
    /\ LET targetEmbed == getEmbedding(hc[p].prospect, embeddingsReady, embedModel, throws)
           ar == AlignRetroEmbedding(hc[p].prev, hc[p].retroEmbed)
       IN hc' = [hc EXCEPT ![p] =
                    IF ar.rejected THEN IdleCall
                    ELSE [@ EXCEPT !.pc = "await_align",
                                   !.targetEmbed = targetEmbed,
                                   !.alignRetro = ar.val,
                                   !.alignProspect =
                                       AlignProspectEmbedding(targetEmbed, hc[p].prospectEmbed)]]
    /\ UNCHANGED <<calc, polled, db, saved, cloud, embedModel, embeddingsReady,
                   embeddingsLoading, sync, currentUser, now, lastNotify, ui>>

\* The row that handleCheckin inserts for the result c of computeAlignment.
CheckinRow(c, ts) ==
    [id |-> 0, ts |-> ts, retrospective |-> c.retro, prospective |-> c.prospect,
     target_words |-> <<>>, hours_slept |-> c.sleep,
     alignment_retro |-> c.alignRetro, alignment_prospect |-> c.alignProspect,
     drift_flag |-> driftFlagOf(c.alignRetro),
     retro_embedding |-> JSONstringify(c.retroEmbed),
     prospect_embedding |-> JSONstringify(c.prospectEmbed),
     target_embedding |-> JSONstringify(c.targetEmbed)]

\* Variant: handleCheckin resumes only once initEmbeddings has settled.
ResumesAfterLoad(p) == hc[p].pc = "await_align" /\ ~embeddingsLoading

\* `await computeAlignment(...)` resumes as soon as the promise is settled.
Resumes(p) == hc[p].pc = "await_align"

\* The continuation after `await computeAlignment(...)`: insert, persist,
\* clear the form, hide the due banner, drift feedback, re-render, status.
FinishCheckin(p) ==
    /\ Resumes(p)
    /\ LET c == hc[p]
           row == CheckinRow(c, NowInstant(db.intent_checkins, now))
           d2 == InsertCheckin(db, row)
       IN /\ db' = d2
          /\ saved' = d2
          /\ ui' = [ui EXCEPT !.notification = FALSE,
                              !.drift = IF row.drift_flag = 1 THEN c.alignRetro ELSE Null,
                              !.collapse = renderCollapseWarning(d2, now),
                              !.lastIntent = renderLastIntent(d2.intent_checkins),
                              !.status = IF IsNull(c.alignRetro) THEN "Checked in."
                                         ELSE "Checked in. Alignment"]
    /\ hc' = [hc EXCEPT ![p] = IdleCall]
    /\ UNCHANGED <<calc, polled, faults, cloud, embedModel, embeddingsReady, embeddingsLoading,
                   sync, currentUser, now, lastNotify>>

(* ---------------------------------------------------------------------- *)
(* initEmbeddings                                                          *)
(* ---------------------------------------------------------------------- *)
\* progress_callback while the model downloads.
LoadProgress ==
    /\ embeddingsLoading
    /\ ~MicrotaskPending
    /\ ui' = [ui EXCEPT !.status = "Loading model"]
    /\ UNCHANGED <<calc, polled, faults, db, saved, cloud, embedModel, embeddingsReady,
                   embeddingsLoading, hc, sync, currentUser, now, lastNotify>>

\* import() and pipeline() both resolved.
LoadSucceeds ==
    /\ embeddingsLoading
    /\ ~MicrotaskPending
    /\ embedModel' = TRUE
    /\ embeddingsReady' = TRUE
    /\ embeddingsLoading' = FALSE
    /\ ui' = [ui EXCEPT !.status = "", !.embedStatus = "semantic similarity"]
    /\ UNCHANGED <<calc, polled, faults, db, saved, cloud, hc, sync, currentUser, now, lastNotify>>

\* import() or pipeline() threw.
LoadFails ==
    /\ embeddingsLoading
    /\ ~MicrotaskPending
    /\ embeddingsReady' = FALSE
    /\ embeddingsLoading' = FALSE
    /\ ui' = [ui EXCEPT !.embedStatus = "text overlap"]
    /\ UNCHANGED <<calc, polled, faults, db, saved, cloud, embedModel, hc, sync, currentUser, now,
                   lastNotify>>

(* ---------------------------------------------------------------------- *)
(* Cloud sync                                                              *)
(* ---------------------------------------------------------------------- *)
\* onAuthStateChange / signOut: the session user appears or goes away.
AuthChange ==
    /\ ~MicrotaskPending
    /\ currentUser' = ~currentUser
    /\ UNCHANGED <<calc, polled, faults, db, saved, cloud, embedModel, embeddingsReady,
                   embeddingsLoading, hc, sync, now, lastNotify, ui>>

\* mergeFromCloud() is called (at boot when a user is present, or by the Sync
\* button, which chains pushToCloud): pullRaw sends its request.
StartMerge(thenPush) ==
    /\ sync.pc = "idle"
    /\ ~MicrotaskPending
    /\ currentUser
    /\ sync' = [pc |-> "pulling", thenPush |-> thenPush, blob |-> NoBlob,
                 atClick |-> IF thenPush THEN cloud ELSE NoBlob]
    /\ UNCHANGED <<calc, polled, faults, db, saved, cloud, embedModel, embeddingsReady,
                   embeddingsLoading, hc, currentUser, now, lastNotify, ui>>

\* What mergeFromCloud's then-callback makes of the pulled row: the merged
\* database, the number of imported rows, whether panasPersist and
\* panasRefreshFromDb were called, and the value the promise resolves to.
MergeResult(failed, bad) == mergeFromCloud(cloud, db, failed, bad)

\* The pull request settles and mergeFromCloud runs to its end; for the Sync
\* button pushToCloud then exports the database and sends the upsert.
PullSettles(failed, bad) ==
    /\ sync.pc = "pulling"
    /\ ~MicrotaskPending
    /\ LET r == MergeResult(failed, bad)
           pushes == sync.thenPush /\ currentUser
       IN /\ Len(r.d.intent_checkins) + InFlight <= MaxRows
          /\ db' = r.d
          /\ saved' = IF r.persisted THEN r.d ELSE saved
          /\ ui' = [ui EXCEPT !.refreshed = @ \/ r.refreshed]
          /\ sync' = IF pushes
                     THEN [pc |-> "pushing", thenPush |-> FALSE,
                           blob |-> u8ToB64(export(r.d)), atClick |-> sync.atClick]
                     ELSE IdleSync
    /\ UNCHANGED <<calc, polled, faults, cloud, embedModel, embeddingsReady, embeddingsLoading, hc,
                   currentUser, now, lastNotify>>

\* The upsert of pushToCloud settles.
PushSettles(failed) ==
    /\ sync.pc = "pushing"
    /\ ~MicrotaskPending
    /\ cloud' = IF failed THEN cloud ELSE sync.blob
    /\ sync' = IdleSync
    /\ UNCHANGED <<calc, polled, faults, db, saved, embedModel, embeddingsReady, embeddingsLoading,
                   hc, currentUser, now, lastNotify, ui>>

\* Another device of the same user replaces the blob.
RemotePush(blob) ==
    /\ ~MicrotaskPending
    /\ cloud # blob
    /\ cloud' = blob
    /\ UNCHANGED <<calc, polled, faults, db, saved, embedModel, embeddingsReady, embeddingsLoading,
                   hc, sync, currentUser, now, lastNotify, ui>>

(* ---------------------------------------------------------------------- *)
(* Clock, poll loop, refresh hook                                          *)
(* ---------------------------------------------------------------------- *)
Tick ==
    /\ ~MicrotaskPending
    /\ \E b \in BootHours : b <= now /\ now < b + MaxTicks
    /\ now' = now + 1
    /\ UNCHANGED <<calc, polled, faults, db, saved, cloud, embedModel, embeddingsReady,
                   embeddingsLoading, hc, sync, currentUser, lastNotify, ui>>

\* The setInterval callback of startNotifyLoop.
PollNotify ==
    /\ ~MicrotaskPending
    /\ LET due == shouldCheckIn(db.intent_checkins, now)
           fires == IF ~due THEN FALSE
                    ELSE IF IsNull(lastNotify) THEN TRUE
                    ELSE 2 * (now * TsRes - Val(lastNotify)) > intervalHours * TsRes
       IN /\ polled' = [at |-> now, due |-> due]
          /\ lastNotify' = IF fires THEN Num(now * TsRes) ELSE lastNotify
          /\ ui' = IF fires THEN [ui EXCEPT !.notification = TRUE] ELSE ui
    /\ UNCHANGED <<calc, faults, db, saved, cloud, embedModel, embeddingsReady,
                   embeddingsLoading, hc, sync, currentUser, now>>

\* window.panasRefreshIntent
RefreshIntent ==
    /\ ~MicrotaskPending
    /\ ui' = [ui EXCEPT !.lastIntent = renderLastIntent(db.intent_checkins),
                        !.collapse = renderCollapseWarning(db, now)]
    /\ ui' # ui
    /\ UNCHANGED <<calc, polled, faults, db, saved, cloud, embedModel, embeddingsReady,
                   embeddingsLoading, hc, sync, currentUser, now, lastNotify>>

(* ---------------------------------------------------------------------- *)
(* Specification                                                           *)
(* ---------------------------------------------------------------------- *)
Next ==
    \/ \E p \in Calls, input \in FormInputs : StartCheckin(p, input)
    \/ \E p \in Calls, throws \in BOOLEAN : EmbedRetro(p, throws)
    \/ \E p \in Calls, throws \in BOOLEAN : EmbedProspect(p, throws)
    \/ \E p \in Calls, throws \in BOOLEAN : EmbedTarget(p, throws)
    \/ \E p \in Calls : FinishCheckin(p)
    \/ LoadSucceeds
    \/ LoadFails
    \/ StartMerge(FALSE)
    \/ \E failed \in BOOLEAN : PullSettles(failed, {})
    \/ \E blob \in RemoteBlobs : RemotePush(blob)
    \/ RefreshIntent

\* The page with its check-in form, the model load and the boot-time merge.
Spec == Init /\ [][Next]_vars

\* The signed-in page with the Sync button: check-ins in text-overlap mode
\* (the model is still loading), merges, pushes and other devices.
SyncInputs ==
    { FormInput(TA \o <<WS>>, TB, Num(50)), FormInput(TC, <<>>, Null) }

NextSync ==
    \/ \E p \in Calls, input \in SyncInputs : StartCheckin(p, input)
    \/ \E p \in Calls : FinishCheckin(p)
    \/ AuthChange
    \/ \E thenPush \in BOOLEAN : StartMerge(thenPush)
    \/ \E failed \in BOOLEAN, bad \in BadInserts : PullSettles(failed, bad)
    \/ \E failed \in BOOLEAN : PushSettles(failed)
    \/ \E blob \in RemoteBlobs \cup {JunkBlob} : RemotePush(blob)
    \/ RefreshIntent

SpecSync == Init /\ [][NextSync]_vars

(* ---------------------------------------------------------------------- *)
(* Properties                                                              *)
(* ---------------------------------------------------------------------- *)
Rows == db.intent_checkins
LastRow(rows) == rows[Len(rows)]

\* A step in which execution p of handleCheckin inserts its row.
Appends(p) ==
    /\ hc[p].pc = "await_align"
    /\ hc'[p].pc = "idle"
    /\ Len(db'.intent_checkins) = Len(db.intent_checkins) + 1

\* C1: every row that handleCheckin appends has drift_flag 1 exactly when
\* the alignment_retro computed for it is non-null and strictly below 0.35;
\* a score of exactly 0.35 and a null score give drift_flag 0.
DriftFlagIffBelowThreshold ==
    [][\A p \in Calls :
          Appends(p) =>
             LET r == LastRow(db'.intent_checkins)
             IN /\ r.alignment_retro = hc[p].alignRetro
                /\ r.drift_flag \in {0, 1}
                /\ r.drift_flag = 1 <=>
                      (r.alignment_retro # <<>> /\ r.alignment_retro[1] < 35)]_vars

\* A row written in embedding mode whose score is exactly 0.35, not flagged.
DriftBoundaryRow ==
    \E i \in 1..Len(Rows) :
        /\ Rows[i].retro_embedding.kind = "json"
        /\ Rows[i].alignment_retro = <<35>>
        /\ Rows[i].drift_flag = 0

\* The similarity of two texts under the strategy of execution c, with the
\* embedding of the new retrospective as the provider returned it to c.
SimilarityToPrior(c) ==
    IF c.semantic
    THEN cosineSim(getEmbedding(c.prev[1].prospective, TRUE, TRUE, FALSE), c.retroEmbed)
    ELSE textOverlapSim(c.prev[1].prospective, c.retro)

\* C2: computeAlignment returns alignRetro = similarity(prior.prospective,
\* new retrospective), and null when there is no prior check-in, the prior
\* prospective is empty or the new retrospective is empty, under both
\* strategies.
AlignRetroIsSimilarityToPrior ==
    \A p \in Calls :
        hc[p].pc = "await_align" =>
            LET c == hc[p]
            IN IF c.prev = NoRow \/ c.prev[1].prospective = <<>> \/ c.retro = <<>>
               THEN c.alignRetro = Null
               ELSE c.alignRetro = SimilarityToPrior(c)

\* C3: the prior check-in that getLastCheckin hands to computeAlignment and
\* shouldCheckIn is the row inserted last, whatever the ts values are.
LastCheckinIsLastInserted ==
    /\ Rows # <<>> => getLastCheckin(Rows) = <<LastRow(Rows)>>
    /\ Rows = <<>> => getLastCheckin(Rows) = NoRow
    /\ \A i, j \in 1..Len(Rows) : i < j => Rows[i].id < Rows[j].id

\* The row inserted last carries an earlier ts than a row inserted before it.
LastInsertedHasEarlierTs ==
    /\ Len(Rows) >= 2
    /\ \E i \in 1..(Len(Rows) - 1) : Rows[i].ts > LastRow(Rows).ts

\* C4: between the read of the last check-in in computeAlignment and the
\* insert of handleCheckin no other row is inserted: an execution in flight
\* still holds the latest row as its prior.
CheckinsNeverConcurrent ==
    \A p \in Calls :
        hc[p].pc # "idle" => hc[p].prev = getLastCheckin(Rows)

\* The pipeline call for `text` threw in an execution on the embedding branch.
Threw(c, text, embed) ==
    c.semantic /\ CallsModel(text, TRUE, TRUE) /\ ~embed.ok

\* The prior row's stored prospect_embedding does not parse, or parses to a
\* vector whose length is not that of the provider's vectors.
PriorEmbeddingUnusable(c) ==
    /\ c.semantic
    /\ c.prev # NoRow
    /\ \/ c.prev[1].prospect_embedding.kind = "garbage"
       \/ /\ c.prev[1].prospect_embedding.kind = "json"
          /\ Len(c.prev[1].prospect_embedding.vec) # Len(pipeline(TA))

\* A step that ends execution p of handleCheckin.
Ends(p) == hc[p].pc # "idle" /\ hc'[p].pc = "idle"

\* C5 as stated: when the embedding call throws for any of the three texts,
\* or the prior embedding is unusable, handleCheckin still appends exactly
\* one row, with alignment_retro null and drift_flag 0, and nothing
\* propagates out of computeAlignment.
AnyFailureGivesUnknownAlignment ==
    [][\A p \in Calls :
          Ends(p) =>
             /\ Appends(p)
             /\ LET c == hc[p]
                    r == LastRow(db'.intent_checkins)
                IN (\/ Threw(c, c.retro, c.retroEmbed)
                    \/ Threw(c, c.prospect, c.prospectEmbed)
                    \/ Threw(c, c.prospect, c.targetEmbed)
                    \/ PriorEmbeddingUnusable(c))
                   => r.alignment_retro = Null /\ r.drift_flag = 0]_vars

\* C5 as amended: every execution that got past validation ends by appending
\* exactly one row; the row has alignment_retro null and drift_flag 0 when
\* the call for the retrospective threw or the prior embedding is unusable,
\* and keeps its score when only the prospective or target call threw.
ScoringFailureNeverBlocksCheckin ==
    [][\A p \in Calls :
          Ends(p) =>
             /\ Appends(p)
             /\ LET c == hc[p]
                    r == LastRow(db'.intent_checkins)
                IN /\ (Threw(c, c.retro, c.retroEmbed) \/ PriorEmbeddingUnusable(c))
                         => r.alignment_retro = Null /\ r.drift_flag = 0
                   /\ ( /\ c.semantic
                        /\ c.retroEmbed.ok
                        /\ c.prev # NoRow
                        /\ c.prev[1].prospect_embedding.kind = "json"
                        /\ ~PriorEmbeddingUnusable(c) )
                         => r.alignment_retro # Null]_vars

\* A row appended after the call for its retrospective threw, next to a
\* prior row with a stored embedding: no score, no flag.
RowAfterRetroThrow ==
    \E i \in 2..Len(Rows) :
        /\ Rows[i - 1].prospect_embedding.kind = "json"
        /\ Rows[i].retrospective # <<>>
        /\ Rows[i].retro_embedding.kind = "null"
        /\ Rows[i].prospect_embedding.kind = "json"
        /\ Rows[i].alignment_retro = Null
        /\ Rows[i].drift_flag = 0

\* C7: the check-in log is append-only and its rows never change: every row
\* stays where it is, with its id and its field values.
CheckinLogAppendOnly ==
    [][\A i \in 1..Len(db.intent_checkins) :
          /\ Len(db'.intent_checkins) >= i
          /\ db'.intent_checkins[i] = db.intent_checkins[i]]_vars

\* A local row and a merged row side by side, pushed to the cloud.
MergedAndPushed ==
    /\ ui.refreshed
    /\ \E i \in 1..Len(Rows) : Rows[i].retrospective = TA
    /\ \E i \in 1..Len(Rows) : Rows[i].retrospective = TB
    /\ cloud = u8ToB64(export(db))

(* ---------------------------------------------------------------------- *)
(* Model load against submission                                           *)
(* ---------------------------------------------------------------------- *)
\* The check-in form and initEmbeddings alone.  The continuation of a
\* settled await is a queued microtask, which the event loop always runs:
\* weak fairness of FinishCheckin.  Nothing obliges the model load or a
\* provider call ever to settle.
NextLoad ==
    \/ \E p \in Calls, input \in FormInputs : StartCheckin(p, input)
    \/ \E p \in Calls, throws \in BOOLEAN : EmbedRetro(p, throws)
    \/ \E p \in Calls, throws \in BOOLEAN : EmbedProspect(p, throws)
    \/ \E p \in Calls, throws \in BOOLEAN : EmbedTarget(p, throws)
    \/ \E p \in Calls : FinishCheckin(p)
    \/ LoadProgress
    \/ LoadSucceeds
    \/ LoadFails

\* What a step of FinishCheckin(p) does to hc: on the behaviours of NextLoad
\* a step is one of FinishCheckin(p) exactly when it satisfies this, and
\* both are enabled exactly when Resumes(p).
ContinuationRuns(p) == Resumes(p) /\ hc' = [hc EXCEPT ![p] = IdleCall]

SpecLoad ==
    Init /\ [][NextLoad]_vars /\ \A p \in Calls : WF_hc(ContinuationRuns(p))

\* An execution of handleCheckin on the text-overlap branch is in flight.
FallbackPending == \E p \in Calls : hc[p].pc # "idle" /\ ~hc[p].semantic

\* C6: a handleCheckin that got past validation while the model is loading
\* or after the load failed takes the text-overlap branch, and it ends, by
\* appending its row, whether or not the load ever finishes.
SubmissionNeverWaitsForModel ==
    /\ [](\A p \in Calls :
            (hc[p].pc # "idle" /\ ~embeddingsReady)
               => (~hc[p].semantic /\ hc[p].pc = "await_align"))
    /\ [][\A p \in Calls : Ends(p) => Appends(p)]_vars
    /\ FallbackPending ~> ~FallbackPending

\* A row written by the text-overlap branch while the model was still loading.
AppendedWhileLoading ==
    /\ embeddingsLoading
    /\ \E i \in 1..Len(Rows) :
          /\ Rows[i].retrospective # <<>>
          /\ Rows[i].retro_embedding.kind = "null"

(* ---------------------------------------------------------------------- *)
(* The due predicate                                                       *)
(* ---------------------------------------------------------------------- *)
\* A stored check-in without alignment data, written at instant ts.
StoredCheckin(id, ts) ==
    [id |-> id, ts |-> ts, retrospective |-> TB, prospective |-> TA,
     target_words |-> <<>>, hours_slept |-> Null,
     alignment_retro |-> Null, alignment_prospect |-> Num(100),
     drift_flag |-> 0, retro_embedding |-> SqlNullText,
     prospect_embedding |-> SqlNullText, target_embedding |-> SqlNullText]

\* The stores the page may boot over at hour h: empty; one check-in of
\* exactly an hour ago; one of an instant later; a check-in of just under
\* an hour ago followed, by id, by a merged one of the day before.
DueDbs(h) ==
    { EmptyDb,
      [EmptyDb EXCEPT !.intent_checkins = <<StoredCheckin(1, (h - 1) * TsRes)>>,
                      !.seq = 1],
      [EmptyDb EXCEPT !.intent_checkins = <<StoredCheckin(1, (h - 1) * TsRes + 1)>>,
                      !.seq = 1],
      [EmptyDb EXCEPT !.intent_checkins =
           <<StoredCheckin(1, (h - 1) * TsRes + 1),
             StoredCheckin(2, (h - 30) * TsRes + 3)>>,
                      !.seq = 2] }

InitDue == \E h \in BootHours : \E d \in DueDbs(h) : BootAt(d, h)

\* The clock, the poll loop and check-ins made while the model loads.
NextDue ==
    \/ Tick
    \/ PollNotify
    \/ \E p \in Calls, input \in SyncInputs : StartCheckin(p, input)
    \/ \E p \in Calls : FinishCheckin(p)

SpecDue == InitDue /\ [][NextDue]_vars

\* C8: whenever shouldCheckIn() is called, at boot or by the poll loop, it
\* returns true exactly when the local hour h has 8 <= h < 20 and either
\* the log is empty or at least 3 hours have passed since the ts of the last
\* check-in; so never at hour 20 or 21, and always at hour 8 with an empty
\* log.
DueByClock ==
    /\ 8 <= now % 24
    /\ now % 24 < 20
    /\ Rows = <<>> \/ now * TsRes - LastRow(Rows).ts >= 3 * TsRes

ShouldCheckInIffWindowAndElapsed ==
    /\ polled.due = DueByClock
    /\ [][PollNotify => (polled'.due = DueByClock')]_vars
    /\ [](polled.at % 24 \in {20, 21} => ~polled.due)

\* The poll loop has just asked at 21:00, with a last check-in of more than
\* three hours ago, and was told that no check-in is due.
PolledAtTwentyOneAfterLongGap ==
    /\ now % 24 = 21
    /\ polled = [at |-> now, due |-> FALSE]
    /\ Rows # <<>>
    /\ now * TsRes - LastRow(Rows).ts >= 3 * TsRes

(* ---------------------------------------------------------------------- *)
(* The collapse heuristic over stored histories                            *)
(* ---------------------------------------------------------------------- *)
MaxHistory == 3       \* stored check-ins the page may boot over
MaxEntries == 4       \* stored PANAS entries the page may boot over

\* Instants of a day that leaves the 7-day window at the first midnight
\* after boot, and of the day before boot.
LeavingDay == DayOf(StartHour) - 7
RecentDay == DayOf(StartHour) - 1
InstantOf(day, i) == (day * HoursPerDay + 12) * TsRes + i

\* The sleep and alignment a stored check-in may carry, and its day.
CheckinKinds ==
    { [sleep |-> Num(50), align |-> Num(80), day |-> LeavingDay],
      [sleep |-> Num(60), align |-> Num(20), day |-> RecentDay],
      [sleep |-> Num(80), align |-> Num(80), day |-> RecentDay],
      [sleep |-> Null,    align |-> Null,    day |-> RecentDay] }

EntryKinds ==
    { [score |-> 10, day |-> LeavingDay], [score |-> 30, day |-> RecentDay] }

\* Sequences over S of length at most n.
SeqsUpTo(S, n) == UNION {[1..k -> S] : k \in 0..n}

HistoryCheckin(i, k) ==
    [StoredCheckin(i, InstantOf(k.day, i)) EXCEPT
        !.hours_slept = k.sleep, !.alignment_retro = k.align,
        !.drift_flag = driftFlagOf(k.align)]

HistoryDb(ks, es) ==
    [entries |-> [i \in 1..Len(es) |->
                     [ts |-> InstantOf(es[i].day, i), negative_score |-> es[i].score]],
     intent_checkins |-> [i \in 1..Len(ks) |-> HistoryCheckin(i, ks[i])],
     sleep_log |-> <<>>,
     seq |-> Len(ks)]

InitCollapse ==
    \E ks \in SeqsUpTo(CheckinKinds, MaxHistory), es \in SeqsUpTo(EntryKinds, MaxEntries) :
        BootAt(HistoryDb(ks, es), StartHour)

\* The clock and the refresh hook over a stored history.
NextCollapse ==
    \/ Tick
    \/ RefreshIntent

SpecCollapse == InitCollapse /\ [][NextCollapse]_vars

Signals == {"sleep", "strain", "alignment"}

\* What computeCollapseWarning returns in the current state.
CollapseNow == computeCollapseWarning(db, now)

FlagsOf(w, t) == {i \in 1..Len(w.flags) : w.flags[i].type = t}
Fired(w) == {t \in Signals : FlagsOf(w, t) # {}}

\* The banner that goes with the signals that fired.
BannerFor(w) ==
    IF Cardinality(Fired(w)) >= 2 THEN "downshift"
    ELSE IF Cardinality(Fired(w)) = 1 THEN "note"
    ELSE "hidden"

\* C9: computeCollapseWarning suggests the downshift exactly when at least
\* two of the three signals sleep, strain and alignment produced a flag, no
\* signal produces more than one flag, and renderCollapseWarning, at boot
\* and on refresh, shows the downshift banner for two or more flags, the
\* Note banner for exactly one and hides the banner for none.  (A refresh
\* leaves the store and the clock as they are.)
Aggregates(w) ==
    /\ \A i \in 1..Len(w.flags) : w.flags[i].type \in Signals
    /\ \A t \in Signals : Cardinality(FlagsOf(w, t)) <= 1
    /\ w.downshift = (Cardinality(Fired(w)) >= 2)

DownshiftIffTwoOfThreeSignals ==
    /\ ui.collapse = BannerFor(CollapseNow)
    /\ []Aggregates(CollapseNow)
    /\ [][RefreshIntent => ui'.collapse = BannerFor(CollapseNow)]_vars

\* The downshift banner is up while exactly two of the signals have fired.
DownshiftOnTwoSignals ==
    /\ ui.collapse = "downshift"
    /\ Cardinality(Fired(CollapseNow)) = 2

\* The samples each signal can see.
SleepSamples ==
    {i \in 1..Len(Rows) : ~IsNull(Rows[i].hours_slept) /\ InLast7Days(Rows[i].ts, now)}
StrainSamples == {i \in 1..Len(db.entries) : InLast7Days(db.entries[i].ts, now)}
AlignSamples == {i \in 1..Len(Rows) : ~IsNull(Rows[i].alignment_retro)}

\* C10: the sleep signal does not fire on fewer than 3 hours_slept samples,
\* the strain signal not on fewer than 4 negative_score samples and the
\* alignment signal not on fewer than 3 non-null alignment_retro samples,
\* whatever the values.
SignalsNeedMinimumSamples ==
    /\ "sleep" \in Fired(CollapseNow) => Cardinality(SleepSamples) >= 3
    /\ "strain" \in Fired(CollapseNow) => Cardinality(StrainSamples) >= 4
    /\ "alignment" \in Fired(CollapseNow) => Cardinality(AlignSamples) >= 3

\* A sample has left the 7-day window: two short nights remain, the sleep
\* signal is silent and the refreshed banner shows the one other flag.
TwoShortNightsNoSleepFlag ==
    /\ DayOf(now) > DayOf(StartHour)
    /\ Cardinality(SleepSamples) = 2
    /\ \A i \in SleepSamples : Val(Rows[i].hours_slept) < 65
    /\ Len(Rows) = 3
    /\ "sleep" \notin Fired(CollapseNow)
    /\ ui.collapse = "note"

(* ---------------------------------------------------------------------- *)
(* The trailing window of the collapse signals                             *)
(* ---------------------------------------------------------------------- *)
\* The instant ts lies within the 7 days that end at hour h.
WithinSevenDays(ts, h) == ts >= (h - 7 * HoursPerDay) * TsRes

\* The store without the check-ins and entries older than 7 days.
TrailingWeek(d, h) ==
    LET recent(r) == WithinSevenDays(r.ts, h)
    IN [d EXCEPT !.intent_checkins = SelectSeq(@, recent),
                 !.entries = SelectSeq(@, recent)]

\* C11: rows whose ts is more than 7 days before now have no influence on
\* computeCollapseWarning: with them removed the result is the same.
CollapseSeesTrailingWeekOnly ==
    computeCollapseWarning(db, now) = computeCollapseWarning(TrailingWeek(db, now), now)

(* ---------------------------------------------------------------------- *)
(* Sleep and strain over a week of history                                 *)
(* ---------------------------------------------------------------------- *)
MaxNights == 4        \* stored check-ins with hours_slept the page may boot over
MaxScores == 5        \* stored PANAS entries the page may boot over

\* Nights carry hours_slept only; LeavingDay rows are 7 days and 8 hours
\* old at boot.
NightKinds ==
    { [sleep |-> Num(60), align |-> Null, day |-> RecentDay],
      [sleep |-> Num(70), align |-> Null, day |-> RecentDay],
      [sleep |-> Num(80), align |-> Null, day |-> LeavingDay] }

ScoreKinds ==
    { [score |-> 10, day |-> RecentDay], [score |-> 13, day |-> RecentDay],
      [score |-> 30, day |-> LeavingDay] }

InitWeek ==
    \/ \E ks \in SeqsUpTo(NightKinds, MaxNights) : BootAt(HistoryDb(ks, <<>>), StartHour)
    \/ \E es \in SeqsUpTo(ScoreKinds, MaxScores) : BootAt(HistoryDb(<<>>, es), StartHour)

SpecWeek == InitWeek /\ [][NextCollapse]_vars

\* hours_slept of the check-ins of the last 7 days.
SleepOfLastWeek ==
    LET hit(r) == ~IsNull(r.hours_slept) /\ WithinSevenDays(r.ts, now)
        sel == SelectSeq(Rows, hit)
    IN [i \in 1..Len(sel) |-> Val(sel[i].hours_slept)]

\* C12: with at least 3 hours_slept samples in the last 7 days the sleep
\* flag fires exactly when their mean is below 6.5 hours, and its severity
\* is high exactly when the mean is below 5.5 hours, medium otherwise.
SleepFlagByWeeklyMean ==
    LET s == SleepOfLastWeek
        w == CollapseNow
    IN Len(s) >= 3 =>
          /\ ("sleep" \in Fired(w)) = (Sum(s) < 65 * Len(s))
          /\ \A i \in FlagsOf(w, "sleep") :
                w.flags[i].severity = IF Sum(s) < 55 * Len(s) THEN "high" ELSE "medium"

\* negative_score of the entries of the last 7 days, oldest first.
StrainOfLastWeek ==
    LET hit(r) == WithinSevenDays(r.ts, now)
        sel == SelectSeq(db.entries, hit)
    IN Values(OrderByKey([i \in 1..Len(sel) |-> <<sel[i].ts, sel[i].negative_score>>]))

\* C13: with n >= 4 negative_score samples in the last 7 days, taken oldest
\* first and split into the first floor(n/2) and the rest, the strain flag
\* fires, with severity medium, exactly when the mean of the second part is
\* more than 1.2 times the mean of the first part.
StrainFlagByWeeklyHalves ==
    LET s == StrainOfLastWeek
        w == CollapseNow
        mid == Len(s) \div 2
        first == SubSeq(s, 1, mid)
        second == SubSeq(s, mid + 1, Len(s))
    IN Len(s) >= 4 =>
          /\ ("strain" \in Fired(w)) =
                (5 * Sum(second) * Len(first) > 6 * Sum(first) * Len(second))
          /\ \A i \in FlagsOf(w, "strain") : w.flags[i].severity = "medium"

(* ---------------------------------------------------------------------- *)
(* Alignment decline over the recent blocks                                *)
(* ---------------------------------------------------------------------- *)
MaxBlocks == 6        \* stored check-ins the alignment signal is computed over

\* Blocks with no score, with a score of 0.20, 0.40 or 0.50; the last kind
\* is a week old and carries a short night.
BlockKinds ==
    { [sleep |-> Null,    align |-> Null,    day |-> RecentDay],
      [sleep |-> Null,    align |-> Num(20), day |-> RecentDay],
      [sleep |-> Null,    align |-> Num(40), day |-> RecentDay],
      [sleep |-> Num(50), align |-> Num(50), day |-> LeavingDay] }

InitBlocks ==
    \E ks \in SeqsUpTo(BlockKinds, MaxBlocks) : BootAt(HistoryDb(ks, <<>>), StartHour)

SpecBlocks == InitBlocks /\ [][NextCollapse]_vars

\* The non-null alignment_retro values in insertion order, and the last
\* driftWindowBlocks of them.
ScoredBlocks ==
    LET hit(r) == ~IsNull(r.alignment_retro)
        sel == SelectSeq(Rows, hit)
    IN [i \in 1..Len(sel) |-> Val(sel[i].alignment_retro)]

RecentScores ==
    LET s == ScoredBlocks
    IN IF Len(s) <= driftWindowBlocks THEN s
       ELSE SubSeq(s, Len(s) - driftWindowBlocks + 1, Len(s))

\* C14: the alignment signal looks at the n most recently inserted non-null
\* alignment_retro values, n at most 5, oldest first; rows without a score
\* are skipped and do not count.  With n >= 3, split into the first
\* floor(n/2) and the rest, the flag fires, with severity medium, exactly
\* when the mean of the second part is below 0.8 times the mean of the first.
AlignmentDeclineOverRecentScores ==
    LET s == RecentScores
        w == CollapseNow
        mid == Len(s) \div 2
        first == SubSeq(s, 1, mid)
        second == SubSeq(s, mid + 1, Len(s))
    IN /\ ("alignment" \in Fired(w)) =
            (/\ Len(s) >= 3
             /\ 5 * Sum(second) * Len(first) < 4 * Sum(first) * Len(second))
       /\ \A i \in FlagsOf(w, "alignment") : w.flags[i].severity = "medium"

\* Six blocks, one of the last five without a score: the five scores reach
\* back to the oldest block, and the decline shows only with it.
DeclineAcrossUnscoredBlock ==
    /\ Len(Rows) = 6
    /\ \E i \in 2..6 : IsNull(Rows[i].alignment_retro)
    /\ Len(ScoredBlocks) = 5
    /\ "alignment" \in Fired(CollapseNow)
    /\ LET t == SubSeq(ScoredBlocks, 2, 5)
       IN ~(5 * Sum(SubSeq(t, 3, 4)) * 2 < 4 * Sum(SubSeq(t, 1, 2)) * 2)

(* ---------------------------------------------------------------------- *)
(* computeCollapseWarning as a function of the store and the clock         *)
(* ---------------------------------------------------------------------- *)
\* The hours at which the page may compute the warning.
InvocationHours == StartHour..(StartHour + MaxTicks)

\* C15 as stated: computeCollapseWarning gives the same flags and downshift
\* for the same stored data at whatever hour it is invoked.
CollapseSameWheneverInvoked ==
    \A h \in InvocationHours : computeCollapseWarning(db, h) = CollapseNow

\* The first, the current and the last hour of the current day.
HoursOfToday ==
    {DayOf(now) * HoursPerDay, now, DayOf(now) * HoursPerDay + HoursPerDay - 1}

\* C15, amended: computing and rendering the warning leaves the store, its
\* saved copy and the cloud copy as they are; for the same stored data the
\* result is the same at every hour of one day, and the banner a refresh
\* shows is the one of the result at that moment, however often it
\* refreshes.  (Across days the result may change.)
CollapseIsFunctionOfStoreAndDay ==
    /\ [](\A h \in HoursOfToday : computeCollapseWarning(db, h) = CollapseNow)
    /\ [][RefreshIntent => /\ UNCHANGED <<db, saved, cloud>>
                           /\ ui'.collapse = BannerFor(CollapseNow)]_vars

\* After midnight the same store gives another result than at boot, and the
\* refreshed banner shows it.
RefreshedAfterRowsLeftWindow ==
    /\ DayOf(now) > DayOf(StartHour)
    /\ BannerFor(CollapseNow) # BannerFor(computeCollapseWarning(db, StartHour))
    /\ ui.collapse = BannerFor(CollapseNow)

(* ---------------------------------------------------------------------- *)
(* The two similarity strategies                                           *)
(* ---------------------------------------------------------------------- *)
\* Retrospectives with at least one token, and the empty one.
PairTexts == {<<>>, TA, TB, TC}

\* alignRetro for the stored prior and a new retrospective under each
\* strategy, the provider succeeding.
AlignRetroUnderEmbedding(retro) ==
    AlignRetroEmbedding(getLastCheckin(Rows), getEmbedding(retro, TRUE, TRUE, FALSE)).val
AlignRetroUnderOverlap(retro) == AlignRetroFallback(getLastCheckin(Rows), retro)

\* C16: whatever the store holds, for a prior prospective and a new
\* retrospective that are empty or have a token, alignRetro is null under
\* the embedding strategy exactly when it is null under token overlap, also
\* when the prior check-in was stored under the other strategy.
StrategiesAgreeOnNull ==
    \A retro \in PairTexts :
        LET prev == getLastCheckin(Rows)
        IN (prev = NoRow \/ prev[1].prospective = <<>> \/ tokenize(prev[1].prospective) # <<>>)
              => (IsNull(AlignRetroUnderEmbedding(retro)) = IsNull(AlignRetroUnderOverlap(retro)))

(* ---------------------------------------------------------------------- *)
(* The similarity functions on their own                                   *)
(* ---------------------------------------------------------------------- *)
MaxPieces == 3        \* pieces (words and whitespace) of a text
MaxDim == 2           \* length of a vector

\* Math.sqrt(nA) * Math.sqrt(nB) in IEEE 754 double arithmetic, for integer
\* norms up to 36 whose exact product root r = sqrt(nA * nB) is an integer:
\* the pairs for which the product of the two rounded roots is a double
\* above r, and those for which it is below r.  For every other such pair
\* the product is r.  (Math.sqrt(2) * Math.sqrt(2) = 2.0000000000000004,
\* Math.sqrt(3) * Math.sqrt(3) = 2.9999999999999996.)
DenomAbove ==
    {<<2, 2>>, <<2, 8>>, <<2, 32>>, <<5, 5>>, <<5, 20>>, <<7, 7>>, <<7, 28>>,
     <<8, 2>>, <<8, 8>>, <<8, 32>>, <<10, 10>>, <<15, 15>>, <<19, 19>>,
     <<20, 5>>, <<20, 20>>, <<28, 7>>, <<28, 28>>, <<32, 2>>, <<32, 8>>,
     <<32, 32>>}

DenomBelow ==
    {<<3, 3>>, <<3, 12>>, <<6, 6>>, <<6, 24>>, <<12, 3>>, <<12, 12>>,
     <<13, 13>>, <<18, 18>>, <<23, 23>>, <<24, 6>>, <<24, 24>>, <<26, 26>>,
     <<29, 29>>, <<31, 31>>}

\* The double `denom` against the exact root: 1 above, -1 below, 0 equal.
denomRounding(nA, nB) ==
    IF <<nA, nB>> \in DenomAbove THEN 1
    ELSE IF <<nA, nB>> \in DenomBelow THEN -1
    ELSE 0

\* The rounding of denom in the call cosineSim(a, b); 0 where the function
\* returns before it computes denom, or returns 0 for denom === 0.
cosineSimRounding(a, b) ==
    IF ~a.ok \/ ~b.ok \/ Len(a.v) # Len(b.v) THEN 0
    ELSE denomRounding(Dot(a.v, a.v), Dot(b.v, b.v))

\* Texts: words separated by whitespace, with or without whitespace around.
Pieces == {"Ship", "rest", "the", WS}
WordsApart(s) == \A i \in 1..(Len(s) - 1) : s[i] = WS \/ s[i + 1] = WS
SimTexts == {s \in SeqsUpTo(Pieces, MaxPieces) : WordsApart(s)}

\* Vectors: null, or an array of numbers.
Components == {-1, 0, 2, 3}
SimVecs == {NoVec} \cup {Vec(v) : v \in SeqsUpTo(Components, MaxDim)}

page == <<db, saved, cloud, embedModel, embeddingsReady, embeddingsLoading,
          hc, sync, currentUser, now, lastNotify, ui, faults, polled>>

InitSim ==
    /\ PageAt(EmptyDb, StartHour)
    /\ \/ \E a, b \in SimTexts : calc = [NoCalc EXCEPT !.kind = "texts", !.a = a, !.b = b]
       \/ \E a, b \in SimVecs : calc = [NoCalc EXCEPT !.kind = "vectors", !.a = a, !.b = b]

\* textOverlapSim(a, b)
CallTextOverlapSim ==
    /\ calc.kind = "texts" /\ calc.fn = ""
    /\ calc' = [calc EXCEPT !.fn = "textOverlapSim",
                            !.out = textOverlapSim(calc.a, calc.b)]
    /\ UNCHANGED page

\* cosineSim(await getEmbedding(a), await getEmbedding(b)) with the model
\* loaded; either pipeline call may throw.
CallEmbeddingSim(throwsA, throwsB) ==
    /\ calc.kind = "texts" /\ calc.fn = ""
    /\ throwsA => CallsModel(calc.a, TRUE, TRUE)
    /\ throwsB => CallsModel(calc.b, TRUE, TRUE)
    /\ calc' = [calc EXCEPT !.fn = "embedding",
                            !.out = cosineSim(getEmbedding(calc.a, TRUE, TRUE, throwsA),
                                              getEmbedding(calc.b, TRUE, TRUE, throwsB))]
    /\ UNCHANGED page

\* cosineSim(a, b)
CallCosineSim ==
    /\ calc.kind = "vectors" /\ calc.fn = ""
    /\ calc' = [calc EXCEPT !.fn = "cosineSim",
                            !.out = cosineSim(calc.a, calc.b),
                            !.rounding = cosineSimRounding(calc.a, calc.b)]
    /\ UNCHANGED page

NextSim ==
    \/ CallTextOverlapSim
    \/ \E throwsA, throwsB \in BOOLEAN : CallEmbeddingSim(throwsA, throwsB)
    \/ CallCosineSim

SpecSim == InitSim /\ [][NextSim]_vars

\* Empty or whitespace only.
Blank(t) == trim(t) = <<>>

\* C17: when either text of a pair is empty or whitespace only the
\* similarity is null under both strategies: textOverlapSim returns null,
\* and getEmbedding returns null for that text, so that cosineSim returns
\* null.
BlankTextGivesNull ==
    (calc.fn \in {"textOverlapSim", "embedding"} /\ (Blank(calc.a) \/ Blank(calc.b))) =>
        /\ IsNull(calc.out)
        /\ \A t \in {calc.a, calc.b} : Blank(t) => getEmbedding(t, TRUE, TRUE, FALSE) = NoVec

\* The embedding strategy has scored a whitespace-only text against a text
\* with a token, the provider succeeding for the latter.
BlankAgainstWordsEmbedded ==
    /\ calc.fn = "embedding"
    /\ calc.a # <<>> /\ Blank(calc.a)
    /\ tokenize(calc.b) # <<>>
    /\ IsNull(calc.out)

\* The tokens of a text.
Vocabulary(t) == {tokenize(t)[i] : i \in 1..Len(tokenize(t))}

\* C18 as stated: textOverlapSim returns 0 for every two non-empty texts
\* with disjoint vocabularies.
DisjointTextsScoreZero ==
    (/\ calc.fn = "textOverlapSim"
     /\ ~Blank(calc.a) /\ ~Blank(calc.b)
     /\ Vocabulary(calc.a) \cap Vocabulary(calc.b) = {}) => calc.out = Num(0)

\* C18, amended: for two texts that each have a token and share none,
\* textOverlapSim returns 0, which the drift flag counts as below the
\* threshold; a text without a token gives null.
DisjointTokensScoreZero ==
    calc.fn = "textOverlapSim" =>
        /\ (/\ Vocabulary(calc.a) # {} /\ Vocabulary(calc.b) # {}
            /\ Vocabulary(calc.a) \cap Vocabulary(calc.b) = {})
              => (calc.out = Num(0) /\ driftFlagOf(calc.out) = 1)
        /\ (Vocabulary(calc.a) = {} \/ Vocabulary(calc.b) = {}) => IsNull(calc.out)

\* Two texts with a token each and none in common have been scored 0.
DisjointWordsScored ==
    /\ calc.fn = "textOverlapSim"
    /\ Vocabulary(calc.a) # {} /\ Vocabulary(calc.b) # {}
    /\ Vocabulary(calc.a) \cap Vocabulary(calc.b) = {}
    /\ calc.out = Num(0)

\* C19: cosineSim returns null when a vector is missing or the lengths
\* differ; for two vectors of equal length it returns a number, 0 when
\* either has zero norm.  It has a value for every pair of arguments.
CosineNullOnlyOnMismatch ==
    calc.fn = "cosineSim" =>
        IF ~calc.a.ok \/ ~calc.b.ok \/ Len(calc.a.v) # Len(calc.b.v)
        THEN IsNull(calc.out)
        ELSE /\ ~IsNull(calc.out)
             /\ (Dot(calc.a.v, calc.a.v) = 0 \/ Dot(calc.b.v, calc.b.v) = 0)
                   => calc.out = Num(0)

\* cosineSim has returned null for two arrays of different length.
LengthMismatchScored ==
    /\ calc.fn = "cosineSim"
    /\ calc.a.ok /\ calc.b.ok
    /\ Len(calc.a.v) # Len(calc.b.v)
    /\ IsNull(calc.out)

\* The exact cosine of a and b is 1 or -1.
Parallel(a, b) == Dot(a.v, b.v) * Dot(a.v, b.v) = Dot(a.v, a.v) * Dot(b.v, b.v)

\* C20: for equal-length non-zero vectors cosineSim(a, b) = cosineSim(b, a),
\* the value lies in [-1, 1], and cosineSim(a, a) = 1.  (With denom above
\* the exact root the quotient of parallel vectors is short of 1 or -1,
\* with denom below it the quotient is beyond.)
CosineLaws ==
    (/\ calc.fn = "cosineSim"
     /\ calc.a.ok /\ calc.b.ok /\ Len(calc.a.v) = Len(calc.b.v)
     /\ Dot(calc.a.v, calc.a.v) # 0 /\ Dot(calc.b.v, calc.b.v) # 0) =>
        /\ calc.out = cosineSim(calc.b, calc.a)
        /\ calc.rounding = cosineSimRounding(calc.b, calc.a)
        /\ Val(calc.out) \in -100..100
        /\ Parallel(calc.a, calc.b) => calc.rounding # -1
        /\ calc.a = calc.b => (calc.out = Num(100) /\ calc.rounding = 0)

(* ---------------------------------------------------------------------- *)
(* Merge and Sync                                                          *)
(* ---------------------------------------------------------------------- *)
\* The ts values of table t in the SQLite file a blob holds (none when the
\* blob is missing or does not open).
CloudTs(blob, t) ==
    IF blob.kind = "none" \/ OpenDatabase(b64ToU8(blob)).threw THEN {}
    ELSE TsOf(OpenDatabase(b64ToU8(blob)).d[t])

Readable(blob) == blob.kind # "none" /\ ~OpenDatabase(b64ToU8(blob)).threw

RemindersThreeHoursApart ==
    [][lastNotify' # lastNotify =>
          /\ windowStart <= now % HoursPerDay /\ now % HoursPerDay < windowEnd
          /\ shouldCheckIn(Rows, now)
          /\ ui'.notification
          /\ IsNull(lastNotify)
                \/ now * TsRes - Val(lastNotify) >= intervalHours * TsRes]_vars

(* ---------------------------------------------------------------------- *)
(* Encryption of the upload                                                *)
(* ---------------------------------------------------------------------- *)
\* PanasCrypto.encrypt(key, data): the base64 text of IV || AES-GCM(key, iv,
\* data); the bytes are not an SQLite file and give the data back only to
\* decrypt under the same key.
encrypt(key, iv, data) ==
    u8ToB64([format |-> "aesgcm", tables |-> EmptyDb, iv |-> iv,
             sealed |-> [key |-> key, data |-> data]])

\* C23: every blob pushToCloud uploads to user_data.encrypted_blob is the
\* AES-GCM encryption, under the locally held key, of the database export it
\* was given, never the plain bytes.
UploadIsCiphertext ==
    [][(sync'.pc = "pushing" /\ sync.pc # "pushing") =>
          \E iv \in {1, 2} :
             sync'.blob = encrypt("panas_enc_key", iv, export(db'))]_vars

(* ---------------------------------------------------------------------- *)
(* The Sync button                                                         *)
(* ---------------------------------------------------------------------- *)
\* C24: when the Sync handler (mergeFromCloud, then pushToCloud) ends with a
\* successful push, every row, by ts and per table, of the blob the cloud
\* held when Sync was clicked is in the blob the cloud holds afterwards,
\* whatever happened to the pull and the merge in between.
SyncKeepsCloudRows ==
    [][(sync.pc = "pushing" /\ PushSettles(FALSE)) =>
          \A t \in Tables : CloudTs(sync.atClick, t) \subseteq CloudTs(cloud', t)]_vars

(* ---------------------------------------------------------------------- *)
(* mergeTable and mergeFromCloud as functions of the two stores            *)
(* ---------------------------------------------------------------------- *)
MaxMerge == 2

\* The two timestamps of the rows of entries below.
MergeTs == {(StartHour - 2) * TsRes, (StartHour - 1) * TsRes}

\* The cloud copy: entries of two timestamps, one of them with two scores,
\* in any order and number up to MaxMerge; a check-in or none; a night or
\* none.
CloudStores ==
    LET rows == { [ts |-> (StartHour - 2) * TsRes, negative_score |-> 10],
                  [ts |-> (StartHour - 2) * TsRes, negative_score |-> 30],
                  [ts |-> (StartHour - 1) * TsRes, negative_score |-> 10] }
    IN { [entries |-> e, intent_checkins |-> c, sleep_log |-> s, seq |-> Len(c)] :
            e \in SeqsUpTo(rows, MaxMerge),
            c \in {<<>>, <<[RemoteShort EXCEPT !.id = 1]>>},
            s \in {<<>>, RemoteSleepLog} }

\* The local store: entries of the same two timestamps, a check-in or
\* none, no night.
LocalStores ==
    LET rows == { [ts |-> (StartHour - 2) * TsRes, negative_score |-> 10],
                  [ts |-> (StartHour - 1) * TsRes, negative_score |-> 30] }
    IN { [entries |-> e, intent_checkins |-> c, sleep_log |-> <<>>, seq |-> Len(c)] :
            e \in SeqsUpTo(rows, MaxMerge),
            c \in {<<>>, <<[RemoteBad EXCEPT !.id = 1]>>} }

\* The two stores and the ts whose INSERT throws: none, an entry's, the
\* check-in's.
InitMerge ==
    /\ PageAt(EmptyDb, StartHour)
    /\ \E a \in CloudStores, b \in LocalStores,
          bad \in {{}, {(StartHour - 2) * TsRes}, {RemoteShort.ts}} :
          calc = [kind |-> "stores", fn |-> "", a |-> a, b |-> b, bad |-> bad,
                  table |-> "", blob |-> NoBlob, out |-> Null, again |-> Null]

\* mergeTable(cloudDB, db, table)
CallMergeTable(table) ==
    /\ calc.kind = "stores" /\ calc.fn = ""
    /\ calc' = [calc EXCEPT !.fn = "mergeTable", !.table = table,
                            !.out = mergeTable(calc.a, calc.b, table, calc.bad)]
    /\ UNCHANGED page

\* mergeFromCloud() while user_data holds `blob`.
CallMergeFromCloud(blob) ==
    /\ calc.kind = "stores" /\ calc.fn = ""
    /\ calc' = [calc EXCEPT !.fn = "mergeFromCloud", !.blob = blob,
                            !.out = mergeFromCloud(blob, calc.b, FALSE, calc.bad)]
    /\ UNCHANGED page

\* mergeFromCloud() once more: the same blob, the store the first run left,
\* the same rows refused by INSERT.
CallMergeFromCloudAgain(failed) ==
    /\ calc.kind = "stores" /\ calc.fn = "mergeFromCloud"
    /\ calc' = [calc EXCEPT !.fn = "mergeFromCloud twice",
                            !.again = mergeFromCloud(calc.blob, calc.out.d, failed, calc.bad)]
    /\ UNCHANGED page

NextMerge ==
    \/ \E table \in Tables : CallMergeTable(table)
    \/ \E blob \in {u8ToB64(export(calc.a)), JunkBlob} : CallMergeFromCloud(blob)
    \/ \E failed \in BOOLEAN : CallMergeFromCloudAgain(failed)

SpecMerge == InitMerge /\ [][NextMerge]_vars

\* A row without the id that INSERT assigns.
SansId(row) == [f \in DOMAIN row \ {"id"} |-> row[f]]
CountTs(rows, ts) == Cardinality({i \in 1..Len(rows) : rows[i].ts = ts})
MaxOf(x, y) == IF x >= y THEN x ELSE y

\* C25: mergeTable keeps the local rows and appends cloud rows only; each
\* appended row is a cloud row whose ts no local row had and no earlier cloud
\* row of this merge had; no ts is shared by more local rows than
\* max(1, the count before); the returned count is the number of rows
\* appended.
MergeTableDedupesByTs ==
    calc.fn = "mergeTable" =>
        LET before == calc.b[calc.table]
            after == calc.out.d[calc.table]
            rows == calc.a[calc.table]
            n == Len(before)
        IN /\ Len(after) >= n /\ SubSeq(after, 1, n) = before
           /\ \A k \in n + 1..Len(after) :
                 \E i \in 1..Len(rows) :
                    /\ SansId(rows[i]) = SansId(after[k])
                    /\ rows[i].ts \notin TsOf(before)
                    /\ \A j \in 1..i - 1 : rows[j].ts # rows[i].ts
           /\ \A ts \in TsOf(after) : CountTs(after, ts) <= MaxOf(1, CountTs(before, ts))
           /\ calc.out.imported = Len(after) - n

\* A cloud table that repeats a ts the local table lacks: one row of that ts
\* is inserted, and the local table already held two rows of another ts.
MergedRepeatedTs ==
    /\ calc.fn = "mergeTable" /\ calc.table = "entries"
    /\ \E ts \in MergeTs :
          /\ CountTs(calc.a.entries, ts) = 2
          /\ CountTs(calc.b.entries, ts) = 0
          /\ CountTs(calc.out.d.entries, ts) = 1
    /\ \E ts \in MergeTs : CountTs(calc.b.entries, ts) = 2
    /\ calc.out.imported = 1

\* C26: a second mergeFromCloud against the same blob, with nothing written
\* locally in between, imports 0 rows, leaves every table as the first run
\* left it, calls neither panasPersist nor the refresh hook, and resolves to
\* false.
MergeFromCloudIdempotent ==
    calc.fn = "mergeFromCloud twice" =>
        /\ calc.again.imported = 0
        /\ calc.again.d = calc.out.d
        /\ ~calc.again.persisted /\ ~calc.again.refreshed
        /\ ~calc.again.returned

\* The first run imported rows of all three tables, one of them a ts the
\* cloud table repeats, and the second run read the blob again.
MergedTwiceAfterImport ==
    /\ calc.fn = "mergeFromCloud twice"
    /\ calc.out.imported >= 3 /\ calc.out.returned
    /\ \A t \in Tables : calc.out.d[t] # calc.b[t]
    /\ \E ts \in MergeTs : CountTs(calc.a.entries, ts) = 2
    /\ Readable(calc.blob)

(* ---------------------------------------------------------------------- *)
(* Check-ins and merges during the day                                     *)
(* ---------------------------------------------------------------------- *)
\* A signed-in page booted in the morning over an empty store: the clock,
\* the poll loop, check-ins, merges at boot or by hand, other devices.
NextDay ==
    \/ Tick
    \/ PollNotify
    \/ \E p \in Calls, input \in SyncInputs : StartCheckin(p, input)
    \/ \E p \in Calls : FinishCheckin(p)
    \/ StartMerge(FALSE)
    \/ \E failed \in BOOLEAN : PullSettles(failed, {})
    \/ \E blob \in RemoteBlobs : RemotePush(blob)

SpecDay == BootAt(EmptyDb, MorningHour) /\ [][NextDay]_vars

\* C27: whenever intent_checkins holds a row whose ts is less than 3 hours
\* before now, shouldCheckIn() returns false, also when rows of older ts
\* were merged afterwards and got greater ids.
NotDueWithinThreeHoursOfCheckin ==
    (\E i \in 1..Len(Rows) :
        /\ Rows[i].ts <= now * TsRes
        /\ now * TsRes - Rows[i].ts < intervalHours * TsRes)
    => ~shouldCheckIn(Rows, now)

(* ---------------------------------------------------------------------- *)
(* The check-in form                                                       *)
(* ---------------------------------------------------------------------- *)
\* A field holding nothing but whitespace.
OnlySpace(t) == \A i \in 1..Len(t) : t[i] = WS

\* C28: a submission whose two fields are empty after trimming changes the
\* status text and nothing else: no row, no persist, no call of
\* computeAlignment left running, due banner, drift feedback and collapse
\* banner as they were.  A submission with a non-empty field starts the
\* scoring, and when a call whose scoring completed ends, exactly one row
\* has been inserted and persisted.
BlankSubmissionRejected ==
    [][/\ \A p \in Calls, input \in FormInputs :
             StartCheckin(p, input) =>
                IF OnlySpace(input.retro) /\ OnlySpace(input.prospect)
                THEN /\ db' = db /\ saved' = saved /\ hc' = hc
                     /\ ui' = [ui EXCEPT !.status = "Please fill in at least one field."]
                ELSE /\ hc'[p].pc # "idle"
                     /\ db' = db /\ saved' = saved
       /\ \A p \in Calls :
             (hc[p].pc = "await_align" /\ hc'[p].pc = "idle") =>
                /\ Len(db'.intent_checkins) = Len(db.intent_checkins) + 1
                /\ saved' = db']_vars

\* A blank submission was turned away while the drift feedback of the
\* check-in before it was on screen.
BlankRejectedAfterDrift ==
    /\ ui.status = "Please fill in at least one field."
    /\ Len(Rows) >= 1 /\ saved = db
    /\ ~IsNull(ui.drift)
    /\ \A p \in Calls : hc[p].pc = "idle"

(* ---------------------------------------------------------------------- *)
(* Recovery codes (crypto.js)                                              *)
(* ---------------------------------------------------------------------- *)
\* A string is the sequence of its characters; "eszett" stands for U+00DF,
\* the one character of these whose upper case is two characters.
KEY_BITS == 256
B32 ==
    <<"A", "B", "C", "D", "E", "F", "G", "H", "I", "J", "K", "L", "M",
    "N", "O", "P", "Q", "R", "S", "T", "U", "V", "W", "X", "Y", "Z", "2",
    "3", "4", "5", "6", "7">>
LowerLetters ==
    <<"a", "b", "c", "d", "e", "f", "g", "h", "i", "j", "k", "l", "m",
    "n", "o", "p", "q", "r", "s", "t", "u", "v", "w", "x", "y", "z">>

Chars(s) == {s[i] : i \in 1..Len(s)}

\* The value of the bits b[from + 1 .. from + width], a missing bit being 0
\* (parseInt(chunk, 2) of a chunk padded with zeros).
BitsValue(b, from, width) ==
    LET Part[i \in 0..width] ==
            IF i = 0 THEN 0
            ELSE 2 * Part[i - 1] + (IF from + i <= Len(b) THEN b[from + i] ELSE 0)
    IN Part[width]

\* bytesToBase32(bytes)
bytesToBase32(bytes) ==
    LET bits == [k \in 1..8 * Len(bytes) |->
                    (bytes[(k - 1) \div 8 + 1] \div 2^(7 - ((k - 1) % 8))) % 2]
    IN [j \in 1..(Len(bits) + 4) \div 5 |-> B32[BitsValue(bits, 5 * (j - 1), 5) + 1]]

\* String.prototype.toUpperCase
RECURSIVE toUpperCase(_)
toUpperCase(str) ==
    IF str = <<>> THEN <<>>
    ELSE LET c == Head(str)
             upper == IF c \in Chars(LowerLetters)
                      THEN <<B32[CHOOSE i \in 1..26 : LowerLetters[i] = c]>>
                      ELSE IF c = "eszett" THEN <<"S", "S">> ELSE <<c>>
         IN upper \o toUpperCase(Tail(str))

\* Variant: the trailing bits that do not fill a byte make a byte of their
\* own.
base32ToBytesCeil(str) ==
    LET s == SelectSeq(toUpperCase(str), LAMBDA c : c \in Chars(B32))
        idx(c) == CHOOSE i \in 0..31 : B32[i + 1] = c
        bits == [k \in 1..5 * Len(s) |->
                    (idx(s[(k - 1) \div 5 + 1]) \div 2^(4 - ((k - 1) % 5))) % 2]
    IN [j \in 1..(Len(bits) + 7) \div 8 |-> BitsValue(bits, 8 * (j - 1), 8)]

\* base32ToBytes(str)
base32ToBytes(str) ==
    LET s == SelectSeq(toUpperCase(str), LAMBDA c : c \in Chars(B32))
        idx(c) == CHOOSE i \in 0..31 : B32[i + 1] = c
        bits == [k \in 1..5 * Len(s) |->
                    (idx(s[(k - 1) \div 5 + 1]) \div 2^(4 - ((k - 1) % 5))) % 2]
    IN [j \in 1..Len(bits) \div 8 |-> BitsValue(bits, 8 * (j - 1), 8)]

\* keyToRecoveryCode(key), over the raw bytes exportKeyRaw gives:
\* b32.match(/.{1,4}/g).join('-')
keyToRecoveryCode(raw) ==
    LET RECURSIVE JoinGroups(_)
        JoinGroups(s) ==
            IF Len(s) <= 4 THEN s
            ELSE SubSeq(s, 1, 4) \o <<"-">> \o JoinGroups(SubSeq(s, 5, Len(s)))
    IN JoinGroups(bytesToBase32(raw))

\* recoveryCodeToKey(code): a rejected promise, or the key importKeyRaw
\* makes of the raw bytes.
recoveryCodeToKey(code) ==
    LET clean == toUpperCase(SelectSeq(code, LAMBDA c : c \notin {"-", " ", "\t", "\n"}))
        raw == base32ToBytes(clean)
    IN IF Len(raw) # 32
       THEN [rejected |-> TRUE, message |-> "Invalid recovery code", key |-> <<>>]
       ELSE [rejected |-> FALSE, message |-> "", key |-> raw]

\* Raw keys: one byte value throughout, another at one place.
MaxEdits == 1
KeyOf(b1, b2, pos) == [i \in 1..KEY_BITS \div 8 |-> IF i = pos THEN b2 ELSE b1]

\* Codes as they may be typed: each of `codes` with up to n characters
\* dropped or put in, at the start, in the second group or at the end.
RECURSIVE Edited(_, _)
Edited(codes, n) ==
    LET Insert(code, c, p) ==
            SubSeq(code, 1, p - 1) \o <<c>> \o SubSeq(code, p, Len(code))
        Delete(code, p) == SubSeq(code, 1, p - 1) \o SubSeq(code, p + 1, Len(code))
        EditsOf(code) ==
            {Insert(code, c, p) : c \in {"-", " ", "1", "q", "A", "eszett"},
                                  p \in {1, 5, Len(code) + 1} \cap (1..Len(code) + 1)}
                \cup {Delete(code, p) : p \in {1, 5, Len(code)} \cap (1..Len(code))}
    IN IF n = 0 THEN codes
       ELSE Edited(codes \cup UNION {EditsOf(code) : code \in codes}, n - 1)

\* The code in lower case (the characters of a recovery code are in B32).
LowerCased(str) ==
    [i \in 1..Len(str) |->
        IF \E k \in 1..26 : B32[k] = str[i]
        THEN LowerLetters[CHOOSE k \in 1..26 : B32[k] = str[i]] ELSE str[i]]

\* A key as exported, or a code as typed: nothing, or the recovery code of
\* a key, whole or cut short, then edited.
InitCode ==
    /\ PageAt(EmptyDb, StartHour)
    /\ \/ \E b1, b2 \in {0, 7, 90, 255}, pos \in {1, 17, KEY_BITS \div 8} :
             calc = [kind |-> "key", fn |-> "", key |-> KeyOf(b1, b2, pos),
                     code |-> <<>>, typed |-> <<>>, out |-> Null]
       \/ LET written ==
                {SubSeq(keyToRecoveryCode(k), 1, Len(keyToRecoveryCode(k)) - cut) :
                    k \in {KeyOf(90, 7, 17), KeyOf(255, 0, KEY_BITS \div 8)},
                    cut \in 0..2}
          IN \E c \in Edited(written \cup {<<>>}, MaxEdits) :
                calc = [kind |-> "code", fn |-> "", key |-> <<>>, code |-> c,
                        typed |-> <<>>, out |-> Null]

\* keyToRecoveryCode(key)
CallKeyToRecoveryCode ==
    /\ calc.kind = "key" /\ calc.fn = ""
    /\ calc' = [calc EXCEPT !.fn = "keyToRecoveryCode",
                            !.code = keyToRecoveryCode(calc.key)]
    /\ UNCHANGED page

\* base32ToBytes on the code just shown, its dashes removed, typed in upper
\* or in lower case.
CallBase32ToBytes(lower) ==
    /\ calc.fn = "keyToRecoveryCode"
    /\ LET nodash == SelectSeq(calc.code, LAMBDA c : c # "-")
           typed == IF lower THEN LowerCased(nodash) ELSE nodash
       IN calc' = [calc EXCEPT !.fn = "base32ToBytes", !.typed = typed,
                               !.out = base32ToBytes(typed)]
    /\ UNCHANGED page

\* recoveryCodeToKey on the code just shown or on a typed code, in the case
\* it has or in lower case.
CallRecoveryCodeToKey(lower) ==
    /\ \/ calc.kind = "key" /\ calc.fn = "keyToRecoveryCode"
       \/ calc.kind = "code" /\ calc.fn = ""
    /\ LET typed == IF lower THEN LowerCased(calc.code) ELSE calc.code
       IN calc' = [calc EXCEPT !.fn = "recoveryCodeToKey", !.typed = typed,
                               !.out = recoveryCodeToKey(typed)]
    /\ UNCHANGED page

NextCode ==
    \/ CallKeyToRecoveryCode
    \/ \E lower \in BOOLEAN : CallBase32ToBytes(lower)
    \/ \E lower \in BOOLEAN : CallRecoveryCodeToKey(lower)

SpecCode == InitCode /\ [][NextCode]_vars

\* A character of A-Z or 2-7, in either case.
Base32Char(c) == c \in Chars(B32) \cup Chars(LowerLetters)

\* C29: recoveryCodeToKey accepts a code exactly when the code, with its
\* dashes, its whitespace and every character outside A-Z / 2-7 (in either
\* case) removed, decodes to 32 bytes, i.e. when the 5 bits of each
\* remaining character fill 32 bytes and no more; any other code gives a
\* rejected promise 'Invalid recovery code' and no key.
AcceptsExactlyThirtyTwoBytes ==
    calc.fn = "recoveryCodeToKey" =>
        LET kept == SelectSeq(calc.typed, Base32Char)
        IN /\ ~calc.out.rejected <=> (5 * Len(kept)) \div 8 = 32
           /\ calc.out.rejected =>
                 calc.out.message = "Invalid recovery code" /\ calc.out.key = <<>>
           /\ ~calc.out.rejected => Len(calc.out.key) = 32

\* C30: for a 32-byte key bytesToBase32 gives 52 characters of the base32
\* alphabet; keyToRecoveryCode writes them as 13 groups of 4 joined by 12
\* dashes; base32ToBytes of the code without its dashes, in upper or lower
\* case, gives the 32 bytes back; recoveryCodeToKey of the code imports the
\* raw key it was made from.
RecoveryCodeRoundTrip ==
    /\ calc.kind = "key" /\ calc.fn # "" =>
          LET b32 == bytesToBase32(calc.key)
          IN /\ Len(calc.key) = 32
             /\ Len(b32) = 52 /\ Chars(b32) \subseteq Chars(B32)
             /\ Len(calc.code) = 13 * 4 + 12
             /\ \A i \in 1..Len(calc.code) :
                   IF i % 5 = 0 THEN calc.code[i] = "-"
                   ELSE calc.code[i] = b32[i - (i \div 5)]
    /\ calc.kind = "key" /\ calc.fn = "base32ToBytes" => calc.out = calc.key
    /\ calc.kind = "key" /\ calc.fn = "recoveryCodeToKey" =>
          ~calc.out.rejected /\ calc.out.key = calc.key

\* A key whose last byte differs from the rest came back from its code
\* typed in lower case.
RestoredFromLowerCaseCode ==
    /\ calc.kind = "key" /\ calc.fn = "recoveryCodeToKey"
    /\ calc.key[32] # calc.key[1]
    /\ Chars(calc.typed) \cap Chars(LowerLetters) # {}
    /\ "-" \in Chars(calc.typed)
    /\ calc.out.key = calc.key

====
